---- MODULE Spec2Model ----
(***************************************************************************)
(* Verification model of hexpm-rust: the version ordering and bump         *)
(* operations of src/src/version.rs and the resolver session built on      *)
(* them (root_dependencies, DependencyProvider, resolve_versions).         *)
(*                                                                         *)
(* Representation choices                                                  *)
(*   u32          a pair <<hi, lo>> of 16-bit limbs, so that the full      *)
(*                32-bit width is kept (value = hi * 65536 + lo)           *)
(*   String       a sequence of ASCII byte values                         *)
(*   Option<T>    a sequence of length 0 (None) or 1 (Some)               *)
(*   Ordering     "Less", "Equal", "Greater"                               *)
(***************************************************************************)
EXTENDS Integers, Sequences, FiniteSets, TLC

VARIABLES
    overflow_checks,  \* build profile: TRUE = arithmetic overflow panics, FALSE = wraps
    va,               \* version algebra: first operand
    vb,               \* version algebra: second operand
    vop,              \* version algebra: last operation applied
    vout,             \* version algebra: its result
    root_requirements, \* resolve_versions: the caller's requirements, in iteration order
    locked,           \* resolve_versions: the caller's lock map
    remote,           \* the PackageFetcher: its answer for each package name
    earlier,          \* the outcome of an earlier session on the same inputs, if any
    pc,               \* session: "Idle", "Resolving", "Done", "Failed"
    phase,            \* solver loop position: "pick", "choose", "deps"
    packages,         \* DependencyProvider.packages (the cache)
    fetch_log,        \* names the fetcher has been called with, in order
    calls,            \* number of provider calls made, per method
    decisions,        \* solver: the decisions taken, oldest first
    banned,           \* solver: per decision level, the (package, version) pairs ruled out
    unavailable,      \* solver: (package, version) pairs reported Unavailable
    added_dependencies, \* solver: dependencies already retrieved, per (package, version)
    next,             \* solver: the package picked for the next decision
    chosen,           \* solver: the version choose_version returned for it
    outcome,          \* what resolve_versions returned
    ecall,            \* envelope layer: the function called and its arguments
    eresult,          \* envelope layer: what the call returned, and the steps it took
    frame,            \* provider: the method running, its arguments and its position
    borrow_flag,      \* provider: RefCell flag of the cache; -1 writing, n > 0 readers
    local,            \* provider: the package ensure_package_fetched holds, if any
    returned          \* provider: what the last provider call returned

version_vars == <<va, vb, vop, vout>>
input_vars == <<overflow_checks, root_requirements, locked, remote, earlier>>
solver_vars == <<decisions, banned, unavailable, added_dependencies, next, chosen>>
session_vars == <<pc, phase, packages, fetch_log, calls, solver_vars, outcome>>
envelope_vars == <<ecall, eresult>>
provider_vars == <<frame, borrow_flag, local, returned>>
vars == <<version_vars, input_vars, session_vars, envelope_vars, provider_vars>>

(***************************************************************************)
(* u32 arithmetic on 16-bit limbs                                          *)
(***************************************************************************)
LimbBits == 16
Limb == 2 ^ LimbBits

U32(n) == <<n \div Limb, n % Limb>>
U32Max == <<Limb - 1, Limb - 1>>
U32Zero == <<0, 0>>

\* u32 as Ord
U32Cmp(a, b) ==
    IF a[1] < b[1] THEN "Less"
    ELSE IF a[1] > b[1] THEN "Greater"
    ELSE IF a[2] < b[2] THEN "Less"
    ELSE IF a[2] > b[2] THEN "Greater"
    ELSE "Equal"

\* n + 1 on u32: [ok |-> FALSE] is the overflow panic of a build with
\* overflow checks, otherwise the sum wraps modulo 2^32.
U32AddOne(n, checks) ==
    IF n = U32Max
    THEN (IF checks THEN [ok |-> FALSE, n |-> U32Zero] ELSE [ok |-> TRUE, n |-> U32Zero])
    ELSE IF n[2] = Limb - 1 THEN [ok |-> TRUE, n |-> <<n[1] + 1, 0>>]
    ELSE [ok |-> TRUE, n |-> <<n[1], n[2] + 1>>]

(***************************************************************************)
(* ASCII                                                                   *)
(***************************************************************************)
Ascii0 == 48
Ascii1 == 49
Ascii9 == 57

is_ascii_digit(c) == c >= Ascii0 /\ c <= Ascii9

\* u32::to_string: decimal digits, most significant first, no leading zero
RECURSIVE U32Digits(_)
U32Digits(n) ==
    LET qhi == n[1] \div 10
        rhi == n[1] % 10
        mid == rhi * Limb + n[2]
        qlo == mid \div 10
        d   == mid % 10
    IN  IF qhi = 0 /\ qlo = 0 THEN <<Ascii0 + d>>
        ELSE Append(U32Digits(<<qhi, qlo>>), Ascii0 + d)

U32ToString(n) == U32Digits(n)

\* str::parse::<u32> of a non-empty run of ASCII digits: [ok |-> FALSE] when
\* the value does not fit in 32 bits (Err, and the caller unwraps it).
RECURSIVE ParseU32From(_, _, _)
ParseU32From(s, i, acc) ==
    IF i > Len(s) THEN [ok |-> TRUE, n |-> acc]
    ELSE LET lo == acc[2] * 10 + (s[i] - Ascii0)
             hi == acc[1] * 10 + (lo \div Limb)
         IN  IF hi >= Limb THEN [ok |-> FALSE, n |-> U32Zero]
             ELSE ParseU32From(s, i + 1, <<hi, lo % Limb>>)

ParseU32(s) == ParseU32From(s, 1, U32Zero)

(***************************************************************************)
(* Identifier, Version                                                     *)
(***************************************************************************)
Numeric(n) == [tag |-> "Numeric", n |-> n, s |-> <<>>]
AlphaNumeric(s) == [tag |-> "AlphaNumeric", n |-> U32Zero, s |-> s]

None == <<>>
Some(x) == <<x>>

Version(major, minor, patch, pre, build) ==
    [major |-> major, minor |-> minor, patch |-> patch, pre |-> pre, build |-> build]

\* Version::new
VersionNew(major, minor, patch) == Version(major, minor, patch, <<>>, None)

\* Version::is_pre
is_pre(v) == v.pre # <<>>

\* <String as Ord>::cmp: byte-wise lexicographic, a proper prefix is smaller
RECURSIVE StrCmpFrom(_, _, _)
StrCmpFrom(a, b, i) ==
    IF i > Len(a) /\ i > Len(b) THEN "Equal"
    ELSE IF i > Len(a) THEN "Less"
    ELSE IF i > Len(b) THEN "Greater"
    ELSE IF a[i] < b[i] THEN "Less"
    ELSE IF a[i] > b[i] THEN "Greater"
    ELSE StrCmpFrom(a, b, i + 1)

StrCmp(a, b) == StrCmpFrom(a, b, 1)

\* #[derive(PartialOrd, Ord)] on Identifier: variants in declaration order
\* (Numeric before AlphaNumeric), then the payloads
IdentifierCmp(a, b) ==
    IF a.tag = "Numeric" /\ b.tag = "Numeric" THEN U32Cmp(a.n, b.n)
    ELSE IF a.tag = "Numeric" THEN "Less"
    ELSE IF b.tag = "Numeric" THEN "Greater"
    ELSE StrCmp(a.s, b.s)

\* <[Identifier] as Ord>::cmp: lexicographic over the elements
RECURSIVE SliceCmpFrom(_, _, _)
SliceCmpFrom(p, q, i) ==
    IF i > Len(p) /\ i > Len(q) THEN "Equal"
    ELSE IF i > Len(p) THEN "Less"
    ELSE IF i > Len(q) THEN "Greater"
    ELSE LET c == IdentifierCmp(p[i], q[i])
         IN  IF c # "Equal" THEN c ELSE SliceCmpFrom(p, q, i + 1)

SliceCmp(p, q) == SliceCmpFrom(p, q, 1)

\* impl Ord for PreOrder
PreOrderCmpPlainSlices(p, q) == SliceCmp(p, q)

PreOrderCmp(p, q) ==
    IF p = <<>> /\ q = <<>> THEN "Equal"
    ELSE IF p = <<>> THEN "Greater"
    ELSE IF q = <<>> THEN "Less"
    ELSE SliceCmp(p, q)

\* impl Ord for Version: self.tuple().cmp(&other.tuple())
cmp(a, b) ==
    LET c1 == U32Cmp(a.major, b.major)
        c2 == U32Cmp(a.minor, b.minor)
        c3 == U32Cmp(a.patch, b.patch)
    IN  IF c1 # "Equal" THEN c1
        ELSE IF c2 # "Equal" THEN c2
        ELSE IF c3 # "Equal" THEN c3
        ELSE PreOrderCmp(a.pre, b.pre)

\* #[derive(PartialEq, Eq)] on Version: every field, build included
eq(a, b) ==
    /\ a.major = b.major
    /\ a.minor = b.minor
    /\ a.patch = b.patch
    /\ a.pre = b.pre
    /\ a.build = b.build

lt(a, b) == cmp(a, b) = "Less"
gt(a, b) == cmp(a, b) = "Greater"

(***************************************************************************)
(* bump                                                                    *)
(***************************************************************************)
Alpha(s) == [tag |-> "Alpha", n |-> U32Zero, s |-> s]
NumericSegment(n) == [tag |-> "Numeric", n |-> n, s |-> <<>>]

\* A value or a panic (an unwrap of Err, an arithmetic overflow under
\* overflow checks).
Ok(x) == [ok |-> TRUE, val |-> x]
Panic == [ok |-> FALSE, val |-> <<>>]

\* The push of a finished segment in split_alphanumeric: a run holding a
\* digit is parsed as u32 and the parse is unwrapped.
PushNumeric(segments, parsed) ==
    IF parsed.ok THEN Ok(Append(segments, NumericSegment(parsed.n))) ELSE Panic

PushSegment(segments, current_segment) ==
    IF current_segment = <<>> THEN Ok(segments)
    ELSE IF \E i \in 1..Len(current_segment) : is_ascii_digit(current_segment[i])
    THEN PushNumeric(segments, ParseU32(current_segment))
    ELSE Ok(Append(segments, Alpha(current_segment)))

\* split_alphanumeric: the loop over str.chars() from position i on, with the
\* segments pushed so far, the current segment and previous_char_was_numeric
\* (None before the first character).
RECURSIVE SplitFrom(_, _, _, _, _)
\* the start of a new segment at position i, once the previous one is pushed
SplitAfterPush(str, i, pushed) ==
    IF ~pushed.ok THEN Panic
    ELSE SplitFrom(str, i + 1, pushed.val, <<str[i]>>, Some(is_ascii_digit(str[i])))

SplitFrom(str, i, segments, current_segment, previous_char_was_numeric) ==
    IF i > Len(str) THEN PushSegment(segments, current_segment)
    ELSE LET char == str[i]
             is_numeric == is_ascii_digit(char)
         IN  IF previous_char_was_numeric = Some(is_numeric)
             THEN SplitFrom(str, i + 1, segments, Append(current_segment, char),
                            previous_char_was_numeric)
             ELSE SplitAfterPush(str, i, PushSegment(segments, current_segment))

split_alphanumeric(str) == SplitFrom(str, 1, <<>>, <<>>, None)

\* segments.into_iter().map(..).collect::<Vec<_>>().join("")
RECURSIVE JoinSegments(_)
JoinSegments(segments) ==
    IF segments = <<>> THEN <<>>
    ELSE LET seg == Head(segments)
         IN  (IF seg.tag = "Alpha" THEN seg.s ELSE U32ToString(seg.n))
             \o JoinSegments(Tail(segments))

\* a version or the overflow panic, from the incremented component
WithPatch(v, p) == IF p.ok THEN Ok(Version(v.major, v.minor, p.n, <<>>, None)) ELSE Panic
WithMinor(v, m) == IF m.ok THEN Ok(Version(v.major, m.n, U32Zero, <<>>, None)) ELSE Panic
WithMajor(v, m) == IF m.ok THEN Ok(Version(m.n, U32Zero, U32Zero, <<>>, None)) ELSE Panic

\* Version::bump_patch
bump_patch(v) == WithPatch(v, U32AddOne(v.patch, overflow_checks))

\* Version::bump_minor
bump_minor(v) == WithMinor(v, U32AddOne(v.minor, overflow_checks))

\* Version::bump_major
bump_major(v) == WithMajor(v, U32AddOne(v.major, overflow_checks))

\* Identifier::Numeric(pre) => *pre += 1
BumpNumeric(n) == IF n.ok THEN Ok(Numeric(n.n)) ELSE Panic

\* AlphaOrNumeric::Numeric(n) => *n += 1, and the rejoin
BumpLastNumeric(segments, n) ==
    IF n.ok
    THEN Ok(AlphaNumeric(JoinSegments(
              [segments EXCEPT ![Len(segments)] = NumericSegment(n.n)])))
    ELSE Panic

\* the match on the last segment, and the rejoin
BumpSegments(split) ==
    IF ~split.ok \/ split.val = <<>> THEN Panic
    ELSE IF split.val[Len(split.val)].tag = "Numeric"
    THEN BumpLastNumeric(split.val,
                         U32AddOne(split.val[Len(split.val)].n, overflow_checks))
    ELSE Ok(AlphaNumeric(JoinSegments(
              [split.val EXCEPT ![Len(split.val)] = Alpha(Append(@.s, Ascii1))])))

\* The match on the last pre-release component in Version::bump
BumpIdentifier(last_component) ==
    IF last_component.tag = "Numeric"
    THEN BumpNumeric(U32AddOne(last_component.n, overflow_checks))
    ELSE BumpSegments(split_alphanumeric(last_component.s))

\* the version with its last pre-release component replaced, build cleared
WithLastPre(v, bumped) ==
    IF bumped.ok
    THEN Ok(Version(v.major, v.minor, v.patch,
                    [v.pre EXCEPT ![Len(v.pre)] = bumped.val], None))
    ELSE Panic

\* Version::bump
bump(v) ==
    IF is_pre(v) THEN WithLastPre(v, BumpIdentifier(v.pre[Len(v.pre)]))
    ELSE bump_patch(v)

(***************************************************************************)
(* pubgrub::Range<Version>: a set of segments, each a pair of bounds       *)
(***************************************************************************)
Unbounded == [kind |-> "Unbounded", v |-> <<>>]
Included(v) == [kind |-> "Included", v |-> <<v>>]
Excluded(v) == [kind |-> "Excluded", v |-> <<v>>]

Segment(lo, hi) == [lo |-> lo, hi |-> hi]

\* Range::between(v1, v2): v1 <= v < v2
between(v1, v2) == {Segment(Included(v1), Excluded(v2))}
\* Range::higher_than(v): v <= versions
higher_than(v) == {Segment(Included(v), Unbounded)}
\* Range::strictly_lower_than(v): versions < v
strictly_lower_than(v) == {Segment(Unbounded, Excluded(v))}
\* Range::full()
full == {Segment(Unbounded, Unbounded)}

AboveLower(lo, w) ==
    CASE lo.kind = "Unbounded" -> TRUE
      [] lo.kind = "Included"  -> cmp(lo.v[1], w) # "Greater"
      [] lo.kind = "Excluded"  -> cmp(lo.v[1], w) = "Less"

BelowUpper(hi, w) ==
    CASE hi.kind = "Unbounded" -> TRUE
      [] hi.kind = "Included"  -> cmp(w, hi.v[1]) # "Greater"
      [] hi.kind = "Excluded"  -> cmp(w, hi.v[1]) = "Less"

\* Range::contains
contains(range, w) ==
    \E seg \in range : AboveLower(seg.lo, w) /\ BelowUpper(seg.hi, w)

\* exact(v): [v, v.bump()); the bump may panic
BetweenBumped(v, v1) == IF v1.ok THEN Ok(between(v, v1.val)) ELSE Panic

exact(v) == BetweenBumped(v, bump(v))

(***************************************************************************)
(* Range, Dependency, Release, Package                                     *)
(***************************************************************************)
\* struct Range { spec, range }
Range(spec, range) == [spec |-> spec, range |-> range]

\* struct Dependency
Dependency(requirement, optional) ==
    [requirement |-> requirement, optional |-> optional, app |-> None, repository |-> None]

\* Dependency::from_range
from_range(range) == Dependency(range, FALSE)

\* Dependency::from_version: the requirement is exact(version)
FromExact(r) == IF r.ok THEN Ok(Dependency(Range("exact", r.val), FALSE)) ELSE Panic

from_version(version) == FromExact(exact(version))

\* struct Release<()>
Release(version, requirements, retirement_status) ==
    [version |-> version, requirements |-> requirements,
     retirement_status |-> retirement_status]

\* Release::is_retired
is_retired(release) == release.retirement_status # None

\* Release::is_pre
release_is_pre(release) == is_pre(release.version)

\* struct Package
Package(name, repository, releases) ==
    [name |-> name, repository |-> repository, releases |-> releases]

\* A map with no entry
EmptyMap == [x \in {} |-> x]

\* HashMap::insert
Insert(map, key, value) ==
    [k \in DOMAIN map \cup {key} |-> IF k = key THEN value ELSE map[k]]

(***************************************************************************)
(* root_dependencies                                                       *)
(***************************************************************************)
IncompatibleLockedVersion(package, requirement, version) ==
    [kind |-> "IncompatibleLockedVersion", package |-> package,
     requirement |-> requirement, version |-> version]

\* locked.iter().map(|(name, version)| (name, Dependency::from_version(version))).collect()
CollectRequirements(deps) ==
    IF \E name \in DOMAIN deps : ~deps[name].ok THEN Panic
    ELSE Ok([name \in DOMAIN deps |-> deps[name].val])

LockedRequirementsDroppingLocks(lockd) ==
    CollectRequirements([name \in {} |-> from_version(lockd[name])])

LockedRequirements(lockd) ==
    CollectRequirements([name \in DOMAIN lockd |-> from_version(lockd[name])])

\* the loop `for (name, range) in base_requirements` from position i on
RECURSIVE RootDependenciesLoopNoLockCheck(_, _, _, _)
RootDependenciesLoopNoLockCheck(base_requirements, i, lockd, requirements) ==
    IF i > Len(base_requirements) THEN [ok |-> TRUE, val |-> requirements]
    ELSE LET name == base_requirements[i][1]
             range == base_requirements[i][2]
         IN  IF name \notin DOMAIN lockd
             THEN RootDependenciesLoopNoLockCheck(base_requirements, i + 1, lockd,
                                       Insert(requirements, name, from_range(range)))
             ELSE RootDependenciesLoopNoLockCheck(base_requirements, i + 1, lockd, requirements)

RECURSIVE RootDependenciesLoop(_, _, _, _)
RootDependenciesLoop(base_requirements, i, lockd, requirements) ==
    IF i > Len(base_requirements) THEN [ok |-> TRUE, val |-> requirements]
    ELSE LET name == base_requirements[i][1]
             range == base_requirements[i][2]
         IN  IF name \notin DOMAIN lockd
             THEN RootDependenciesLoop(base_requirements, i + 1, lockd,
                                       Insert(requirements, name, from_range(range)))
             ELSE IF ~contains(range.range, lockd[name])
             THEN [ok |-> FALSE,
                   val |-> IncompatibleLockedVersion(name, range, lockd[name])]
             ELSE RootDependenciesLoop(base_requirements, i + 1, lockd, requirements)

\* root_dependencies: Ok(requirements), Err(IncompatibleLockedVersion) or a
\* panic out of exact()
RootDependenciesFrom(base_requirements, lockd, start) ==
    IF ~start.ok THEN [ok |-> FALSE, val |-> [kind |-> "Panic"]]
    ELSE RootDependenciesLoop(base_requirements, 1, lockd, start.val)

root_dependencies(base_requirements, lockd) ==
    RootDependenciesFrom(base_requirements, lockd, LockedRequirements(lockd))

(***************************************************************************)
(* DependencyProvider                                                      *)
(***************************************************************************)
\* The version set the solver hands to the provider for one package: the
\* intersection of the ranges required of it, less the versions the solver
\* has ruled out (each removed as the complement of Range::singleton).
VersionSet(ranges, excluded) == [ranges |-> ranges, excluded |-> excluded]

\* Range::contains on such a set
vs_contains(vs, w) ==
    /\ \A r \in vs.ranges : contains(r, w)
    /\ \A x \in vs.excluded : cmp(x, w) # "Equal"

\* insertion of x into a list sorted ascending by version, after its equals
\* (sort_by is stable)
RECURSIVE InsertSorted(_, _)
InsertSorted(sorted, x) ==
    IF sorted = <<>> THEN <<x>>
    ELSE LET last == sorted[Len(sorted)]
         IN  IF cmp(last.version, x.version) = "Greater"
             THEN Append(InsertSorted(SubSeq(sorted, 1, Len(sorted) - 1), x), last)
             ELSE Append(sorted, x)

\* releases.sort_by(|a, b| a.version.cmp(&b.version))
RECURSIVE SortByVersion(_)
SortByVersion(releases) ==
    IF releases = <<>> THEN <<>>
    ELSE InsertSorted(SortByVersion(SubSeq(releases, 1, Len(releases) - 1)),
                      releases[Len(releases)])

\* releases.reverse()
Reverse(seq) == [i \in 1..Len(seq) |-> seq[Len(seq) + 1 - i]]

\* the elements satisfying / not satisfying Release::is_pre, in order
RECURSIVE FilterPre(_, _)
FilterPre(releases, want_pre) ==
    IF releases = <<>> THEN <<>>
    ELSE LET rest == FilterPre(Tail(releases), want_pre)
         IN  IF release_is_pre(Head(releases)) = want_pre
             THEN <<Head(releases)>> \o rest ELSE rest

\* the ordering ensure_package_fetched gives the fetched releases
OrderReleasesWithoutPartition(releases) == Reverse(SortByVersion(releases))

OrderReleases(releases) ==
    LET descending == Reverse(SortByVersion(releases))
        pre == FilterPre(descending, TRUE)
        norm == FilterPre(descending, FALSE)
    IN  norm \o pre

\* ensure_package_fetched on cache `pkgs` with fetcher `fetcher`:
\* the cache after the call, whether the fetcher was called, and the
\* FetchError if it failed
ensure_package_fetched_swallowing_error(pkgs, fetcher, name) ==
    IF name \in DOMAIN pkgs
    THEN [ok |-> TRUE, packages |-> pkgs, fetched |-> FALSE, err |-> None]
    ELSE LET got == fetcher[name]
         IN  IF ~got.ok
             THEN [ok |-> TRUE, packages |-> pkgs, fetched |-> TRUE, err |-> None]
             ELSE [ok |-> TRUE,
                   packages |-> Insert(pkgs, name,
                       [got.package EXCEPT !.releases = OrderReleases(got.package.releases)]),
                   fetched |-> TRUE, err |-> None]

ensure_package_fetched_without_cache_check(pkgs, fetcher, name) ==
    IF name \in DOMAIN pkgs /\ name \notin DOMAIN fetcher
    THEN [ok |-> TRUE, packages |-> pkgs, fetched |-> FALSE, err |-> None]
    ELSE LET got == fetcher[name]
         IN  IF ~got.ok
             THEN [ok |-> FALSE, packages |-> pkgs, fetched |-> TRUE,
                   err |-> Some(got.err)]
             ELSE [ok |-> TRUE,
                   packages |-> Insert(pkgs, name,
                       [got.package EXCEPT !.releases = OrderReleases(got.package.releases)]),
                   fetched |-> TRUE, err |-> None]

ensure_package_fetched(pkgs, fetcher, name) ==
    IF name \in DOMAIN pkgs
    THEN [ok |-> TRUE, packages |-> pkgs, fetched |-> FALSE, err |-> None]
    ELSE LET got == fetcher[name]
         IN  IF ~got.ok
             THEN [ok |-> FALSE, packages |-> pkgs, fetched |-> TRUE,
                   err |-> Some(got.err)]
             ELSE [ok |-> TRUE,
                   packages |-> Insert(pkgs, name,
                       [got.package EXCEPT !.releases = OrderReleases(got.package.releases)]),
                   fetched |-> TRUE, err |-> None]

\* p.releases of the cached package, nothing when the name is not cached
ReleasesOf(pkgs, name) == IF name \in DOMAIN pkgs THEN pkgs[name].releases ELSE <<>>

\* .find(|r| &r.version == version): index of the first match, 0 if none
FindRelease(releases, version) ==
    IF \E i \in 1..Len(releases) : eq(releases[i].version, version)
    THEN CHOOSE i \in 1..Len(releases) :
            /\ eq(releases[i].version, version)
            /\ \A j \in 1..(i - 1) : ~eq(releases[j].version, version)
    ELSE 0

Unavailable(reason) == [kind |-> "Unavailable", reason |-> reason, deps |-> EmptyMap]
Available(deps) == [kind |-> "Available", reason |-> "", deps |-> deps]

\* self.locked.get(name) != Some(version)
NotLockedTo(lockd, name, version) ==
    ~(name \in DOMAIN lockd /\ eq(lockd[name], version))

\* DependencyProvider::get_dependencies, after ensure_package_fetched
get_dependencies(pkgs, lockd, name, version) ==
    LET releases == ReleasesOf(pkgs, name)
        i == FindRelease(releases, version)
    IN  IF i = 0 THEN Unavailable("not found")
        ELSE LET release == releases[i]
             IN  IF is_retired(release) /\ NotLockedTo(lockd, name, version)
                 THEN Unavailable("retired")
                 ELSE Available([n \in DOMAIN release.requirements |->
                                    release.requirements[n].requirement.range])

\* Reverse<usize>
ReverseOrd(n) == [rev |-> n]
\* Reverse(a) > Reverse(b)
PriorityGreater(x, y) == x.rev < y.rev

\* .filter(|r| range.contains(&r.version)).count()
RECURSIVE CountMatching(_, _)
CountMatching(releases, vs) ==
    IF releases = <<>> THEN 0
    ELSE (IF vs_contains(vs, Head(releases).version) THEN 1 ELSE 0)
         + CountMatching(Tail(releases), vs)

\* DependencyProvider::prioritize
prioritize_counting_every_release(pkgs, name, vs) ==
    ReverseOrd(Len(ReleasesOf(pkgs, name)))

prioritize(pkgs, name, vs) == ReverseOrd(CountMatching(ReleasesOf(pkgs, name), vs))

\* Iterator::max over versions: None for an empty iterator, the last of the
\* maximal elements otherwise
RECURSIVE MaxVersion(_, _)
MaxVersion(versions_, best) ==
    IF versions_ = <<>> THEN best
    ELSE LET x == Head(versions_)
         IN  MaxVersion(Tail(versions_),
                        IF best = None \/ cmp(best[1], x) # "Greater" THEN Some(x) ELSE best)

\* the versions of the releases in range, in cache order
RECURSIVE CompatibleVersions(_, _)
CompatibleVersions(releases, vs) ==
    IF releases = <<>> THEN <<>>
    ELSE (IF vs_contains(vs, Head(releases).version) THEN <<Head(releases).version>> ELSE <<>>)
         \o CompatibleVersions(Tail(releases), vs)

RECURSIVE NonPre(_)
NonPre(versions_) ==
    IF versions_ = <<>> THEN <<>>
    ELSE (IF ~is_pre(Head(versions_)) THEN <<Head(versions_)>> ELSE <<>>)
         \o NonPre(Tail(versions_))

\* DependencyProvider::choose_version, after ensure_package_fetched
choose_version_taking_the_highest(pkgs, name, vs) ==
    MaxVersion(CompatibleVersions(ReleasesOf(pkgs, name), vs), None)

choose_version(pkgs, name, vs) ==
    LET compatible_packages == CompatibleVersions(ReleasesOf(pkgs, name), vs)
        stable == MaxVersion(NonPre(compatible_packages), None)
    IN  IF stable # None THEN stable ELSE MaxVersion(compatible_packages, None)

(***************************************************************************)
(* The resolver session: resolve_versions driving pubgrub::resolve         *)
(***************************************************************************)
root_name == "root"
root_version == VersionNew(U32Zero, U32Zero, U32Zero)

\* Range::singleton
singleton(v) == {Segment(Included(v), Included(v))}

\* the state of a session before resolve_versions is called
SessionIdle ==
    /\ pc = "Idle"
    /\ phase = "none"
    /\ packages = EmptyMap
    /\ fetch_log = <<>>
    /\ calls = [prioritize |-> 0, choose_version |-> 0, get_dependencies |-> 0]
    /\ decisions = <<>>
    /\ banned = <<{}>>
    /\ unavailable = {}
    /\ added_dependencies = EmptyMap
    /\ next = ""
    /\ chosen = None
    /\ outcome = [kind |-> "None"]

\* DependencyProvider::new: the cache holds the root package alone
ProviderNew(root) == Insert(EmptyMap, root.name, root)

\* solver: the packages decided, and the version decided for one
Decided == { decisions[i].package : i \in 1..Len(decisions) }
VersionOf(p) ==
    decisions[CHOOSE i \in 1..Len(decisions) : decisions[i].package = p].version

\* solver: the ranges the decided packages require of package q; the root is
\* required at root_version from the start
Constraints(q) ==
    (IF q = root_name THEN {singleton(root_version)} ELSE {})
    \cup { added_dependencies[<<decisions[i].package, decisions[i].version>>][q] :
             i \in { j \in 1..Len(decisions) :
                       q \in DOMAIN added_dependencies[<<decisions[j].package,
                                                         decisions[j].version>>] } }

\* solver: packages required and not yet decided
Pending ==
    ({root_name} \cup UNION { DOMAIN added_dependencies[<<decisions[i].package,
                                                          decisions[i].version>>] :
                               i \in 1..Len(decisions) })
    \ Decided

\* whether deciding p = v, with dependencies deps, contradicts a decision taken
Conflicts(p, v, deps) ==
    \E q \in DOMAIN deps :
        \/ q = p /\ ~contains(deps[q], v)
        \/ q \in Decided /\ ~contains(deps[q], VersionOf(q))

\* solver: versions of q ruled out under the current decisions
RuledOut(q) ==
    { x[2] : x \in { y \in unavailable \cup UNION { banned[k] : k \in 1..Len(banned) } :
                       y[1] = q } }
    \cup { x[2] : x \in { y \in DOMAIN added_dependencies :
                            y[1] = q /\ Conflicts(q, y[2], added_dependencies[y]) } }

\* solver: the version set handed to the provider for package q
TermIntersection(q) == VersionSet(Constraints(q), RuledOut(q))

\* .filter(|(name, _)| name.as_str() != root_name.as_str()).collect()
FilterRootKeepingAll(solution) == solution

FilterRoot(solution) ==
    [name \in DOMAIN solution \ {root_name} |-> solution[name]]

\* the selected dependencies pubgrub::resolve returns
Solution == [p \in Decided |-> VersionOf(p)]

\* resolve_versions up to the call of pubgrub::resolve
StartWithLateLockCheck(requirements) ==
    /\ pc' = "Resolving"
    /\ phase' = "pick"
    /\ packages' = ProviderNew(Package(root_name, "local",
                       <<Release(root_version,
                                 IF requirements.ok THEN requirements.val ELSE EmptyMap,
                                 None)>>))
    /\ outcome' = IF requirements.ok THEN outcome ELSE requirements.val

StartWith(requirements) ==
    IF ~requirements.ok
    THEN /\ pc' = "Failed"
         /\ outcome' = requirements.val
         /\ UNCHANGED <<phase, packages>>
    ELSE /\ pc' = "Resolving"
         /\ phase' = "pick"
         /\ packages' = ProviderNew(Package(root_name, "local",
                            <<Release(root_version, requirements.val, None)>>))
         /\ UNCHANGED outcome

Start ==
    /\ pc = "Idle"
    /\ StartWith(root_dependencies(root_requirements, locked))
    /\ UNCHANGED <<version_vars, envelope_vars, provider_vars, input_vars, fetch_log, calls, solver_vars>>

\* solver: prioritize the pending packages and pick the one of highest priority
SolverPick ==
    /\ pc = "Resolving" /\ phase = "pick"
    /\ Pending # {}
    /\ \E p \in Pending :
          /\ \A q \in Pending :
                ~PriorityGreater(prioritize(packages, q, TermIntersection(q)),
                                 prioritize(packages, p, TermIntersection(p)))
          /\ next' = p
    /\ phase' = "choose"
    /\ calls' = [calls EXCEPT !.prioritize = @ + Cardinality(Pending)]
    /\ UNCHANGED <<version_vars, envelope_vars, provider_vars, input_vars, pc, packages, fetch_log, decisions, banned,
                   unavailable, added_dependencies, chosen, outcome>>

\* solver: nothing is pending; resolve_versions filters the root out and returns
SolverFinish ==
    /\ pc = "Resolving" /\ phase = "pick"
    /\ Pending = {}
    /\ pc' = "Done"
    /\ phase' = "none"
    /\ outcome' = [kind |-> "Ok", packages |-> FilterRoot(Solution)]
    /\ UNCHANGED <<version_vars, envelope_vars, provider_vars, input_vars, packages, fetch_log, calls, solver_vars>>

\* solver: no version of `next` can be chosen under the current decisions:
\* the latest decision is undone and ruled out, or the solve fails
Backtrack ==
    IF decisions = <<>>
    THEN /\ pc' = "Failed"
         /\ phase' = "none"
         /\ outcome' = [kind |-> "ResolutionError", error |-> "NoSolution"]
         /\ UNCHANGED <<decisions, banned>>
    ELSE LET n == Len(decisions)
             d == decisions[n]
         IN  /\ decisions' = SubSeq(decisions, 1, n - 1)
             /\ banned' = [SubSeq(banned, 1, n) EXCEPT
                              ![n] = @ \cup {<<d.package, d.version>>}]
             /\ phase' = "pick"
             /\ UNCHANGED <<pc, outcome>>

\* solver: decide p = v, whose dependencies are deps, unless that contradicts
\* a decision taken, in which case v is ruled out at this level
Decide(p, v, deps) ==
    IF Conflicts(p, v, deps)
    THEN /\ banned' = [banned EXCEPT ![Len(banned)] = @ \cup {<<p, v>>}]
         /\ UNCHANGED decisions
    ELSE /\ decisions' = Append(decisions, [package |-> p, version |-> v])
         /\ banned' = Append(banned, {})

\* the provider's choose_version(next, range), and what the solver does with it
ChooseVersion ==
    /\ pc = "Resolving" /\ phase = "choose"
    /\ calls' = [calls EXCEPT !.choose_version = @ + 1]
    /\ LET fetched == ensure_package_fetched(packages, remote, next)
       IN  /\ fetch_log' = IF fetched.fetched THEN Append(fetch_log, next) ELSE fetch_log
           /\ packages' = fetched.packages
           /\ IF ~fetched.ok
              THEN /\ pc' = "Failed"
                   /\ phase' = "none"
                   /\ outcome' = [kind |-> "ResolutionError",
                                  error |-> "ErrorChoosingVersion",
                                  package |-> next, source |-> fetched.err[1]]
                   /\ UNCHANGED <<decisions, banned, chosen>>
              ELSE LET v == choose_version(fetched.packages, next, TermIntersection(next))
                   IN  IF v = None
                       THEN Backtrack /\ UNCHANGED chosen
                       ELSE IF <<next, v[1]>> \in DOMAIN added_dependencies
                       THEN /\ Decide(next, v[1], added_dependencies[<<next, v[1]>>])
                            /\ phase' = "pick"
                            /\ UNCHANGED <<pc, outcome, chosen>>
                       ELSE /\ chosen' = v
                            /\ phase' = "deps"
                            /\ UNCHANGED <<pc, outcome, decisions, banned>>
    /\ UNCHANGED <<version_vars, envelope_vars, provider_vars, input_vars, unavailable, added_dependencies, next>>

\* the provider's get_dependencies(next, chosen), and what the solver does with it
GetDependencies ==
    /\ pc = "Resolving" /\ phase = "deps"
    /\ calls' = [calls EXCEPT !.get_dependencies = @ + 1]
    /\ chosen' = None
    /\ LET fetched == ensure_package_fetched(packages, remote, next)
       IN  /\ fetch_log' = IF fetched.fetched THEN Append(fetch_log, next) ELSE fetch_log
           /\ packages' = fetched.packages
           /\ IF ~fetched.ok
              THEN /\ pc' = "Failed"
                   /\ phase' = "none"
                   /\ outcome' = [kind |-> "ResolutionError",
                                  error |-> "ErrorRetrievingDependencies",
                                  package |-> next, source |-> fetched.err[1]]
                   /\ UNCHANGED <<decisions, banned, unavailable, added_dependencies>>
              ELSE LET dependencies == get_dependencies(fetched.packages, locked, next, chosen[1])
                   IN  /\ phase' = "pick"
                       /\ UNCHANGED <<pc, outcome>>
                       /\ IF dependencies.kind = "Unavailable"
                          THEN /\ unavailable' = unavailable \cup {<<next, chosen[1]>>}
                               /\ UNCHANGED <<decisions, banned, added_dependencies>>
                          ELSE /\ added_dependencies' =
                                      Insert(added_dependencies, <<next, chosen[1]>>,
                                             dependencies.deps)
                               /\ Decide(next, chosen[1], dependencies.deps)
                               /\ UNCHANGED unavailable
    /\ UNCHANGED <<version_vars, envelope_vars, provider_vars, input_vars, next>>

\* the envelope layer at rest: no function has been called
NoCall == [op |-> "none"]

\* the provider at rest: no method is running
NoFrame == [at |-> "idle"]

(***************************************************************************)
(* Version algebra: the operations applied to sampled versions             *)
(***************************************************************************)
MaxPreLen == 2

\* "rc", "rc9", "a", "b"
Str_rc == <<114, 99>>
Str_rc9 == <<114, 99, 57>>
Str_a == <<97>>
Str_b == <<98>>

Identifiers ==
    { Numeric(U32(2)), Numeric(U32(10)), AlphaNumeric(Str_rc), AlphaNumeric(Str_rc9) }

PreLists == UNION { [1..n -> Identifiers] : n \in 0..MaxPreLen }

Cores ==
    { <<U32(1), U32(0), U32(0)>>, <<U32(1), U32(0), U32(1)>>, <<U32(1), U32(1), U32(0)>>,
      <<U32(2), U32(0), U32(0)>>, <<U32(1), U32(0), U32Max>> }

\* Every core with every pre-release list and no build metadata, and 1.0.0
\* with every pre-release list under two different build strings.
Versions ==
    { Version(c[1], c[2], c[3], pre, None) : c \in Cores, pre \in PreLists }
    \cup { Version(U32(1), U32(0), U32(0), pre, b) :
             pre \in PreLists, b \in {Some(Str_a), Some(Str_b)} }

VInit ==
    /\ overflow_checks \in BOOLEAN
    /\ va \in Versions
    /\ vb \in Versions
    /\ vop = "init"
    /\ vout = <<>>
    /\ SessionIdle
    /\ root_requirements = <<>>
    /\ locked = EmptyMap
    /\ remote = EmptyMap
    /\ earlier = None
    /\ ecall = NoCall
    /\ eresult = None
    /\ frame = NoFrame
    /\ borrow_flag = 0
    /\ local = None
    /\ returned = None

\* v.bump()
VBump ==
    /\ vop = "init"
    /\ vop' = "bump"
    /\ vout' = bump(va)
    /\ UNCHANGED <<va, vb, envelope_vars, provider_vars, input_vars, session_vars>>

\* a.cmp(&b) together with a == b
VCmp ==
    /\ vop = "init"
    /\ vop' = "cmp"
    /\ vout' = [ord |-> cmp(va, vb), eq |-> eq(va, vb)]
    /\ UNCHANGED <<va, vb, envelope_vars, provider_vars, input_vars, session_vars>>

\* whether the range r contains v and w
ExactContains(r, v, w) ==
    IF r.ok THEN Ok([self |-> contains(r.val, v), other |-> contains(r.val, w)]) ELSE Panic

\* exact(a).contains(&a) and exact(a).contains(&b)
VExact ==
    /\ vop = "init"
    /\ vop' = "exact"
    /\ vout' = ExactContains(exact(va), va, vb)
    /\ UNCHANGED <<va, vb, envelope_vars, provider_vars, input_vars, session_vars>>

VNext == VBump \/ VCmp \/ VExact

VersionSpec == VInit /\ [][VNext]_vars

(***************************************************************************)
(* Resolver sessions over sampled registries, locks and requirements       *)
(***************************************************************************)
MaxReleases == 2
MaxRootReqs == 2

v100 == VersionNew(U32(1), U32(0), U32(0))
v110 == VersionNew(U32(1), U32(1), U32(0))
v200 == VersionNew(U32(2), U32(0), U32(0))
v300 == VersionNew(U32(3), U32(0), U32(0))
\* 1.0.1-rc, 1.0.1-rc9 and 1.0.0+a
v101rc == Version(U32(1), U32(0), U32(1), <<AlphaNumeric(Str_rc)>>, None)
v101rc9 == Version(U32(1), U32(0), U32(1), <<AlphaNumeric(Str_rc9)>>, None)
v100a == Version(U32(1), U32(0), U32(0), <<>>, Some(Str_a))

\* compiled requirements: ">= 1.0.0", "~> 1.0", "~> 2.0"
Req_ge_100 == Range(">= 1.0.0", higher_than(v100))
Req_compat_10 == Range("~> 1.0", between(v100, v200))
Req_compat_20 == Range("~> 2.0", between(v200, v300))

Retired == Some([reason |-> "Security", message |-> ""])

\* the releases the registry may hold of package a and of package b
ReleasesA ==
    { Release(v100, EmptyMap, None),
      Release(v100, EmptyMap, Retired),
      Release(v110, Insert(EmptyMap, "b", from_range(Req_compat_10)), None),
      Release(v110, Insert(EmptyMap, "b", Dependency(Req_compat_10, TRUE)), None),
      Release(v101rc, EmptyMap, None),
      Release(v101rc9, EmptyMap, None) }

ReleasesB ==
    { Release(v100, EmptyMap, None),
      Release(v200, EmptyMap, None) }

\* the sequences of at most n different elements of S
DistinctSeqs(S, n) ==
    { q \in UNION { [1..k -> S] : k \in 0..n } :
        \A i, j \in 1..Len(q) : i # j => q[i] # q[j] }

FetchOk(name, releases) == [ok |-> TRUE, package |-> Package(name, "hexpm", releases), err |-> ""]
FetchErr(name) == [ok |-> FALSE, package |-> Package(name, "hexpm", <<>>), err |-> "not found"]

\* what the fetcher may answer for a name: an error, or a package holding
\* some of its releases in any order
Answers(name, S) ==
    {FetchErr(name)} \cup { FetchOk(name, q) : q \in DistinctSeqs(S, MaxReleases) }

Remotes ==
    { [name \in {"a", "b"} |-> IF name = "a" THEN ra ELSE rb] :
        ra \in Answers("a", ReleasesA), rb \in Answers("b", ReleasesB) }

\* lock maps: a unlocked or locked to 1.0.0, 1.0.0+a or 1.0.1-rc; b unlocked
\* or locked to 1.0.0
Locks ==
    { [name \in da \cup db |-> IF name = "a" THEN la ELSE v100] :
        da \in {{}, {"a"}}, db \in {{}, {"b"}}, la \in {v100, v100a, v101rc} }

RootReqItems ==
    { <<"a", Req_ge_100>>, <<"a", Req_compat_20>>, <<"b", Req_compat_10>>,
      <<"b", Req_compat_20>> }

RootReqs == UNION { [1..k -> RootReqItems] : k \in 0..MaxRootReqs }

Init ==
    /\ overflow_checks = FALSE
    /\ va = root_version
    /\ vb = root_version
    /\ vop = "none"
    /\ vout = <<>>
    /\ root_requirements \in RootReqs
    /\ locked \in Locks
    /\ remote \in Remotes
    /\ earlier = None
    /\ ecall = NoCall
    /\ eresult = None
    /\ frame = NoFrame
    /\ borrow_flag = 0
    /\ local = None
    /\ returned = None
    /\ SessionIdle

Next == Start \/ SolverPick \/ SolverFinish \/ ChooseVersion \/ GetDependencies

Spec == Init /\ [][Next]_vars

(***************************************************************************)
(* Two sessions on the same inputs: resolve_versions called a second time  *)
(* with the same requirements, lock map and fetcher. The requirements      *)
(* reach resolve_versions as an iterator; when the caller holds them in a  *)
(* hash map, the order of iteration is whatever the map's hasher gives.    *)
(***************************************************************************)
\* no name occurs twice among the requirements
DistinctNames(reqs) ==
    \A i, j \in 1..Len(reqs) : i # j => reqs[i][1] # reqs[j][1]

\* the orders in which a hash map holding reqs may hand them over
IterationOrders(reqs) ==
    IF DistinctNames(reqs)
    THEN { [i \in 1..Len(reqs) |-> reqs[f[i]]] : f \in Permutations(1..Len(reqs)) }
    ELSE {reqs}

\* the first session has returned; resolve_versions is called again
Rerun ==
    /\ pc \in {"Done", "Failed"}
    /\ earlier = None
    /\ earlier' = Some(outcome)
    /\ root_requirements' \in IterationOrders(root_requirements)
    /\ pc' = "Idle"
    /\ phase' = "none"
    /\ packages' = EmptyMap
    /\ fetch_log' = <<>>
    /\ calls' = [prioritize |-> 0, choose_version |-> 0, get_dependencies |-> 0]
    /\ decisions' = <<>>
    /\ banned' = <<{}>>
    /\ unavailable' = {}
    /\ added_dependencies' = EmptyMap
    /\ next' = ""
    /\ chosen' = None
    /\ outcome' = [kind |-> "None"]
    /\ UNCHANGED <<version_vars, envelope_vars, provider_vars, overflow_checks, locked, remote>>

NextTwo == Start \/ SolverPick \/ SolverFinish \/ ChooseVersion \/ GetDependencies \/ Rerun

TwoSessions == Init /\ [][NextTwo]_vars

(***************************************************************************)
(* The provider under any caller: after DependencyProvider::new, its       *)
(* methods choose_version, get_dependencies and prioritize are called in   *)
(* any order with any arguments, and each call is taken statement by       *)
(* statement. The cache is a RefCell; borrow_flag is its flag, as RefCell  *)
(* keeps it: 0 unborrowed, -1 mutably borrowed, n > 0 shared n times.      *)
(* The provider holds a RefCell and is therefore not Sync: one call runs   *)
(* at a time, and the fetcher holds no reference to the provider.          *)
(***************************************************************************)
MaxProviderCalls == 3

\* RefCell::borrow_mut and RefCell::borrow succeed (they panic otherwise)
CanBorrowMut(flag) == flag = 0
CanBorrow(flag) == flag >= 0

\* struct FetchError, as the Err of a provider method
FetchError(message) == [ok |-> FALSE, val |-> message]

\* a provider method entered with its arguments
Frame(method, name, range, version) ==
    [method |-> method, name |-> name, range |-> range, version |-> version,
     at |-> "entered"]

\* the number of provider calls made so far
CallsMade == calls.prioritize + calls.choose_version + calls.get_dependencies

\* the registry of these sessions also knows a package named as the root,
\* and a release of a that requires the root
Release_a200 == Release(v200, Insert(EmptyMap, root_name, from_range(Req_ge_100)), None)

ProviderReleasesA ==
    { Release(v100, EmptyMap, Retired), Release(v101rc, EmptyMap, None), Release_a200 }

ProviderRemotes ==
    { [name \in {root_name, "a", "b"} |->
          IF name = root_name THEN rr ELSE IF name = "a" THEN ra ELSE rb] :
        rr \in {FetchErr(root_name), FetchOk(root_name, <<Release(v100, EmptyMap, None)>>)},
        ra \in Answers("a", ProviderReleasesA),
        rb \in {FetchErr("b"), FetchOk("b", <<Release(v100, EmptyMap, None)>>)} }

ProviderLocks == { EmptyMap, Insert(EmptyMap, "a", v100) }

\* the calls a solver may make
ProviderFrames ==
    { Frame(method, name, vs, root_version) :
        method \in {"choose_version", "prioritize"},
        name \in {root_name, "a", "b"},
        vs \in {VersionSet({full}, {}), VersionSet({Req_compat_10.range}, {})} }
    \cup
    { Frame("get_dependencies", name, VersionSet({full}, {}), v) :
        name \in {root_name, "a", "b"}, v \in {root_version, v100, v200} }

\* the root package resolve_versions builds
RootPackage(requirements) ==
    Package(root_name, "local", <<Release(root_version, requirements, None)>>)

\* the state resolve_versions hands to pubgrub::resolve
ProviderInit ==
    /\ overflow_checks = FALSE
    /\ va = root_version
    /\ vb = root_version
    /\ vop = "none"
    /\ vout = <<>>
    /\ root_requirements = << <<"a", Req_ge_100>> >>
    /\ locked \in ProviderLocks
    /\ remote \in ProviderRemotes
    /\ earlier = None
    /\ ecall = NoCall
    /\ eresult = None
    /\ frame = NoFrame
    /\ borrow_flag = 0
    /\ local = None
    /\ returned = None
    /\ pc = "Resolving"
    /\ phase = "pick"
    /\ packages = ProviderNew(RootPackage(root_dependencies(root_requirements, locked).val))
    /\ fetch_log = <<>>
    /\ calls = [prioritize |-> 0, choose_version |-> 0, get_dependencies |-> 0]
    /\ decisions = <<>>
    /\ banned = <<{}>>
    /\ unavailable = {}
    /\ added_dependencies = EmptyMap
    /\ next = ""
    /\ chosen = None
    /\ outcome = [kind |-> "None"]

\* the solver calls a provider method
ProviderCall ==
    /\ pc = "Resolving"
    /\ frame.at = "idle"
    /\ CallsMade < MaxProviderCalls
    /\ \E f \in ProviderFrames :
          /\ frame' = f
          /\ calls' = [calls EXCEPT ![f.method] = @ + 1]
    /\ returned' = None
    /\ UNCHANGED <<version_vars, envelope_vars, input_vars, pc, phase, packages, fetch_log,
                   solver_vars, outcome, borrow_flag, local>>

\* ensure_package_fetched: let mut packages = self.packages.borrow_mut()
EnsureBorrowMut ==
    /\ frame.at = "entered"
    /\ frame.method \in {"choose_version", "get_dependencies"}
    /\ IF CanBorrowMut(borrow_flag)
       THEN /\ borrow_flag' = -1
            /\ frame' = [frame EXCEPT !.at = "ensure"]
            /\ UNCHANGED returned
       ELSE /\ frame' = [frame EXCEPT !.at = "panicked"]
            /\ returned' = Some(Panic)
            /\ UNCHANGED borrow_flag
    /\ UNCHANGED <<version_vars, envelope_vars, input_vars, session_vars, local>>

\* ensure_package_fetched: the lookup in the cache and, when the name is not
\* there, the call of the fetcher; an error returns through both `?`
EnsureLookupWithoutCacheCheck ==
    /\ frame.at = "ensure"
    /\ fetch_log' = Append(fetch_log, frame.name)
    /\ IF remote[frame.name].ok
       THEN /\ local' = Some(remote[frame.name].package)
            /\ frame' = [frame EXCEPT !.at = "fetched"]
            /\ UNCHANGED <<borrow_flag, returned>>
       ELSE /\ borrow_flag' = 0
            /\ returned' = Some(FetchError(remote[frame.name].err))
            /\ frame' = NoFrame
            /\ UNCHANGED local
    /\ UNCHANGED <<version_vars, envelope_vars, input_vars, pc, phase, packages, calls,
                   solver_vars, outcome>>

EnsureLookup ==
    /\ frame.at = "ensure"
    /\ IF frame.name \in DOMAIN packages
       THEN /\ frame' = [frame EXCEPT !.at = "ensure_return"]
            /\ UNCHANGED <<fetch_log, local, borrow_flag, returned>>
       ELSE /\ fetch_log' = Append(fetch_log, frame.name)
            /\ IF remote[frame.name].ok
               THEN /\ local' = Some(remote[frame.name].package)
                    /\ frame' = [frame EXCEPT !.at = "fetched"]
                    /\ UNCHANGED <<borrow_flag, returned>>
               ELSE /\ borrow_flag' = 0
                    /\ returned' = Some(FetchError(remote[frame.name].err))
                    /\ frame' = NoFrame
                    /\ UNCHANGED local
    /\ UNCHANGED <<version_vars, envelope_vars, input_vars, pc, phase, packages, calls,
                   solver_vars, outcome>>

\* ensure_package_fetched: sort, reverse, partition, extend
EnsureSort ==
    /\ frame.at = "fetched"
    /\ local' = Some([local[1] EXCEPT !.releases = OrderReleases(@)])
    /\ frame' = [frame EXCEPT !.at = "sorted"]
    /\ UNCHANGED <<version_vars, envelope_vars, input_vars, session_vars, borrow_flag, returned>>

\* ensure_package_fetched: packages.insert(name.to_string(), package)
EnsureInsertEvictingOthers ==
    /\ frame.at = "sorted"
    /\ packages' = Insert(ProviderNew(packages[root_name]), frame.name, local[1])
    /\ local' = None
    /\ frame' = [frame EXCEPT !.at = "ensure_return"]
    /\ UNCHANGED <<version_vars, envelope_vars, input_vars, pc, phase, fetch_log, calls,
                   solver_vars, outcome, borrow_flag, returned>>

EnsureInsert ==
    /\ frame.at = "sorted"
    /\ packages' = Insert(packages, frame.name, local[1])
    /\ local' = None
    /\ frame' = [frame EXCEPT !.at = "ensure_return"]
    /\ UNCHANGED <<version_vars, envelope_vars, input_vars, pc, phase, fetch_log, calls,
                   solver_vars, outcome, borrow_flag, returned>>

\* ensure_package_fetched: Ok(()); the RefMut goes out of scope
EnsureReturnKeepingBorrow ==
    /\ frame.at = "ensure_return"
    /\ borrow_flag' = borrow_flag
    /\ frame' = [frame EXCEPT !.at = "ensured"]
    /\ UNCHANGED <<version_vars, envelope_vars, input_vars, session_vars, local, returned>>

EnsureReturn ==
    /\ frame.at = "ensure_return"
    /\ borrow_flag' = 0
    /\ frame' = [frame EXCEPT !.at = "ensured"]
    /\ UNCHANGED <<version_vars, envelope_vars, input_vars, session_vars, local, returned>>

\* self.packages.borrow() of get_dependencies, choose_version and prioritize
CacheBorrow ==
    /\ \/ frame.at = "ensured"
       \/ frame.at = "entered" /\ frame.method = "prioritize"
    /\ IF CanBorrow(borrow_flag)
       THEN /\ borrow_flag' = borrow_flag + 1
            /\ frame' = [frame EXCEPT !.at = "reading"]
            /\ UNCHANGED returned
       ELSE /\ frame' = [frame EXCEPT !.at = "panicked"]
            /\ returned' = Some(Panic)
            /\ UNCHANGED borrow_flag
    /\ UNCHANGED <<version_vars, envelope_vars, input_vars, session_vars, local>>

\* the body of the method over the borrowed cache, and its return; the Ref
\* goes out of scope
MethodReturn ==
    /\ frame.at = "reading"
    /\ returned' =
          Some(Ok(IF frame.method = "get_dependencies"
                  THEN get_dependencies(packages, locked, frame.name, frame.version)
                  ELSE IF frame.method = "choose_version"
                  THEN choose_version(packages, frame.name, frame.range)
                  ELSE prioritize(packages, frame.name, frame.range)))
    /\ borrow_flag' = borrow_flag - 1
    /\ frame' = NoFrame
    /\ UNCHANGED <<version_vars, envelope_vars, input_vars, session_vars, local>>

ProviderNext ==
    \/ ProviderCall \/ EnsureBorrowMut \/ EnsureLookup \/ EnsureSort \/ EnsureInsert
    \/ EnsureReturn \/ CacheBorrow \/ MethodReturn

ProviderSpec == ProviderInit /\ [][ProviderNext]_vars

(***************************************************************************)
(* The envelope layer of src/src/lib.rs: response parsers and request      *)
(* builders. A response is its status and its body; a body is its bytes,   *)
(* together with what serde_json and GzDecoder make of them (the decoders  *)
(* are libraries, and only their verdict on the bytes is kept).            *)
(*   Result<T, ApiError>   [ok, kind, detail, steps]: kind is "Ok", the    *)
(*                         ApiError variant, or "panic"; steps lists the   *)
(*                         stages of the function that ran, in order       *)
(***************************************************************************)
ApiOk(value, steps) == [ok |-> TRUE, kind |-> "Ok", detail |-> value, steps |-> steps]
ApiErr(kind, detail, steps) == [ok |-> FALSE, kind |-> kind, detail |-> detail, steps |-> steps]
ApiPanic(message, steps) == [ok |-> FALSE, kind |-> "panic", detail |-> message, steps |-> steps]

Response(status, body) == [status |-> status, body |-> body]
ResponseBody(bytes, json, gzip) == [bytes |-> bytes, json |-> json, gzip |-> gzip]

\* String::from_utf8_lossy(&body).to_string(), for bodies whose bytes are
\* ASCII or bytes that begin no UTF-8 sequence: each of the latter becomes
\* U+FFFD
from_utf8_lossy(bytes) ==
    [i \in 1..Len(bytes) |-> IF bytes[i] < 128 THEN bytes[i] ELSE 65533]

\* str::contains
str_contains(text, pattern) ==
    \E i \in 0..(Len(text) - Len(pattern)) :
        \A j \in 1..Len(pattern) : text[i + j] = pattern[j]

\* "--replace"
Str_replace == <<45, 45, 114, 101, 112, 108, 97, 99, 101>>

\* ApiError::unexpected_response
unexpected_response(status, body) ==
    ApiErr("UnexpectedResponse",
           [status |-> status, text |-> from_utf8_lossy(body.bytes)], <<"status">>)

\* serde_json::from_slice(&body)?
FromJson(body) ==
    IF body.json = None THEN ApiErr("Json", "", <<"status", "json">>)
    ELSE ApiOk(body.json[1], <<"status", "json">>)

Unit == "()"

create_api_key_response(response) ==
    CASE response.status = "CREATED" -> FromJson(response.body)
      [] response.status = "TOO_MANY_REQUESTS" -> ApiErr("RateLimited", "", <<"status">>)
      [] response.status = "UNAUTHORIZED" -> ApiErr("InvalidCredentials", "", <<"status">>)
      [] OTHER -> unexpected_response(response.status, response.body)

remove_api_key_response(response) ==
    CASE response.status \in {"NO_CONTENT", "OK"} -> ApiOk(Unit, <<"status">>)
      [] response.status = "TOO_MANY_REQUESTS" -> ApiErr("RateLimited", "", <<"status">>)
      [] response.status = "UNAUTHORIZED" -> ApiErr("InvalidCredentials", "", <<"status">>)
      [] OTHER -> unexpected_response(response.status, response.body)

retire_release_response(response) ==
    CASE response.status \in {"NO_CONTENT", "OK"} -> ApiOk(Unit, <<"status">>)
      [] response.status = "TOO_MANY_REQUESTS" -> ApiErr("RateLimited", "", <<"status">>)
      [] response.status = "UNAUTHORIZED" -> ApiErr("InvalidCredentials", "", <<"status">>)
      [] OTHER -> unexpected_response(response.status, response.body)

unretire_release_response(response) ==
    CASE response.status \in {"NO_CONTENT", "OK"} -> ApiOk(Unit, <<"status">>)
      [] response.status = "TOO_MANY_REQUESTS" -> ApiErr("RateLimited", "", <<"status">>)
      [] response.status = "UNAUTHORIZED" -> ApiErr("InvalidCredentials", "", <<"status">>)
      [] OTHER -> unexpected_response(response.status, response.body)

\* the mapping shared, arm for arm, by the key-authenticated endpoints that
\* answer with one success status
KeyAuthenticated(response, success) ==
    CASE response.status \in success -> ApiOk(Unit, <<"status">>)
      [] response.status = "NOT_FOUND" -> ApiErr("NotFound", "", <<"status">>)
      [] response.status = "TOO_MANY_REQUESTS" -> ApiErr("RateLimited", "", <<"status">>)
      [] response.status = "UNAUTHORIZED" -> ApiErr("InvalidApiKey", "", <<"status">>)
      [] response.status = "FORBIDDEN" -> ApiErr("Forbidden", "", <<"status">>)
      [] OTHER -> unexpected_response(response.status, response.body)

remove_docs_response(response) == KeyAuthenticated(response, {"NO_CONTENT"})
publish_docs_response(response) == KeyAuthenticated(response, {"CREATED"})
revert_release_response(response) == KeyAuthenticated(response, {"NO_CONTENT"})
add_owner_response(response) == KeyAuthenticated(response, {"NO_CONTENT"})
transfer_owner_response(response) == KeyAuthenticated(response, {"NO_CONTENT"})
remove_owner_response(response) == KeyAuthenticated(response, {"NO_CONTENT"})

publish_package_response(response) ==
    CASE response.status \in {"OK", "CREATED"} -> ApiOk(Unit, <<"status">>)
      [] response.status = "NOT_FOUND" -> ApiErr("NotFound", "", <<"status">>)
      [] response.status = "TOO_MANY_REQUESTS" -> ApiErr("RateLimited", "", <<"status">>)
      [] response.status = "UNAUTHORIZED" -> ApiErr("InvalidApiKey", "", <<"status">>)
      [] response.status = "FORBIDDEN" -> ApiErr("Forbidden", "", <<"status">>)
      [] response.status = "UNPROCESSABLE_ENTITY" ->
            IF str_contains(from_utf8_lossy(response.body.bytes), Str_replace)
            THEN ApiErr("NotReplacing", "", <<"status">>)
            ELSE ApiErr("LateModification", "", <<"status">>)
      [] OTHER -> unexpected_response(response.status, response.body)

get_package_release_response(response) ==
    CASE response.status = "OK" -> FromJson(response.body)
      [] response.status = "NOT_FOUND" -> ApiErr("NotFound", "", <<"status">>)
      [] response.status = "TOO_MANY_REQUESTS" -> ApiErr("RateLimited", "", <<"status">>)
      [] response.status = "UNAUTHORIZED" -> ApiErr("InvalidApiKey", "", <<"status">>)
      [] response.status = "FORBIDDEN" -> ApiErr("Forbidden", "", <<"status">>)
      [] OTHER -> unexpected_response(response.status, response.body)

(***************************************************************************)
(* Version::parse, by the grammar: three integers joined by ".", then    *)
(* optionally "-" and identifiers joined by ".", then optionally "+" and   *)
(* a build string                                                          *)
(***************************************************************************)
\* index of the first occurrence of byte c in s, 0 when there is none
IndexOf(s, c) ==
    IF \E i \in 1..Len(s) : s[i] = c
    THEN CHOOSE i \in 1..Len(s) : s[i] = c /\ \A j \in 1..(i - 1) : s[j] # c
    ELSE 0

\* s split at every occurrence of byte c
RECURSIVE SplitOn(_, _)
SplitOn(s, c) ==
    IF IndexOf(s, c) = 0 THEN <<s>>
    ELSE <<SubSeq(s, 1, IndexOf(s, c) - 1)>>
         \o SplitOn(SubSeq(s, IndexOf(s, c) + 1, Len(s)), c)

AllDigits(s) == s # <<>> /\ \A i \in 1..Len(s) : is_ascii_digit(s[i])

\* [0-9A-Za-z-]
IsIdentifierByte(c) ==
    is_ascii_digit(c) \/ c \in 65..90 \/ c \in 97..122 \/ c = 45

\* an unsigned integer token: decimal, no leading zero unless it is "0",
\* and within u32
IsInt(s) ==
    /\ AllDigits(s)
    /\ (Len(s) > 1 => s[1] # Ascii0)
    /\ ParseU32(s).ok

IsIdentifier(s) ==
    /\ s # <<>>
    /\ \A i \in 1..Len(s) : IsIdentifierByte(s[i])
    /\ (AllDigits(s) => IsInt(s))

IsBuild(s) ==
    s # <<>> /\ \A i \in 1..Len(s) : IsIdentifierByte(s[i]) \/ s[i] = 46

ToIdentifier(s) == IF AllDigits(s) THEN Numeric(ParseU32(s).n) ELSE AlphaNumeric(s)

\* the version literal with its parts already separated: core "M.m.p",
\* pre-release part (None when there is no "-") and build (None when no "+")
ParseParts(core, pre, build) ==
    LET numbers == SplitOn(core, 46)
        ids == IF pre = None THEN <<>> ELSE SplitOn(pre[1], 46)
    IN  IF /\ Len(numbers) = 3
           /\ \A i \in 1..3 : IsInt(numbers[i])
           /\ \A i \in 1..Len(ids) : IsIdentifier(ids[i])
           /\ (build # None => IsBuild(build[1]))
        THEN Ok(Version(ParseU32(numbers[1]).n, ParseU32(numbers[2]).n,
                        ParseU32(numbers[3]).n,
                        [i \in 1..Len(ids) |-> ToIdentifier(ids[i])], build))
        ELSE [ok |-> FALSE, val |-> "parse error"]

\* the part of the literal before the build, split at the first "-"
ParseBeforeBuild(main, build) ==
    IF IndexOf(main, 45) = 0 THEN ParseParts(main, None, build)
    ELSE ParseParts(SubSeq(main, 1, IndexOf(main, 45) - 1),
                    Some(SubSeq(main, IndexOf(main, 45) + 1, Len(main))), build)

\* Version::parse / Version::try_from(&str)
parse_version(s) ==
    IF IndexOf(s, 43) = 0 THEN ParseBeforeBuild(s, None)
    ELSE ParseBeforeBuild(SubSeq(s, 1, IndexOf(s, 43) - 1),
                          Some(SubSeq(s, IndexOf(s, 43) + 1, Len(s))))

(***************************************************************************)
(* Tarball bodies: read_and_check_body                                     *)
(***************************************************************************)
\* let mut buffer = [0; 1024]
BufferLen == 1024

\* ring::digest::Context over SHA256, kept as a running position-weighted
\* sum of the bytes fed to it (h) and their number (n); the digest is two
\* bytes long here
ContextNew == [h |-> 7, n |-> 0]

\* the weighted sum of bytes[lo..hi], the first of them at position n + lo
RECURSIVE WeightedSum(_, _, _, _)
WeightedSum(bytes, lo, hi, n) ==
    IF lo > hi THEN 0
    ELSE IF lo = hi THEN (n + lo) * (bytes[lo] + 1)
    ELSE WeightedSum(bytes, lo, (lo + hi) \div 2, n)
         + WeightedSum(bytes, (lo + hi) \div 2 + 1, hi, n)

\* context.update(bytes)
ContextUpdate(context, bytes) ==
    [h |-> (context.h + WeightedSum(bytes, 1, Len(bytes), context.n)) % 65521,
     n |-> context.n + Len(bytes)]

ContextFinish(context) == <<context.h \div 256, context.h % 256>>

\* the digest of a whole byte string
Sha256(bytes) == ContextFinish(ContextUpdate(ContextNew, bytes))

\* reader.read(&mut buffer): the number of bytes read at position pos
ReadCount(bytes, pos) ==
    IF Len(bytes) - pos + 1 < BufferLen THEN Len(bytes) - pos + 1 ELSE BufferLen

\* the loop of read_and_check_body from position pos on, then the comparison
\* of the digest with the checksum
RECURSIVE ReadLoop(_, _, _, _, _)
ReadLoop(bytes, pos, context, body, checksum) ==
    IF ReadCount(bytes, pos) = 0
    THEN IF ContextFinish(context) = checksum
         THEN ApiOk(body, <<"status", "read", "digest">>)
         ELSE ApiErr("IncorrectChecksum", "", <<"status", "read", "digest">>)
    ELSE ReadLoop(bytes, pos + ReadCount(bytes, pos),
                  ContextUpdate(context,
                                SubSeq(bytes, pos, pos + ReadCount(bytes, pos) - 1)),
                  body \o SubSeq(bytes, pos, pos + ReadCount(bytes, pos) - 1),
                  checksum)

read_and_check_body_ignoring_digest(bytes, checksum) ==
    ApiOk(bytes, <<"status", "read", "digest">>)

read_and_check_body(bytes, checksum) == ReadLoop(bytes, 1, ContextNew, <<>>, checksum)

get_package_tarball_response(response, checksum) ==
    CASE response.status = "OK" -> read_and_check_body(response.body.bytes, checksum)
      [] response.status \in {"FORBIDDEN", "NOT_FOUND"} -> ApiErr("NotFound", "", <<"status">>)
      [] OTHER -> unexpected_response(response.status, response.body)

(***************************************************************************)
(* Signed repository payloads                                              *)
(*   body.gzip     None when the bytes are no gzip stream, else what they  *)
(*                 inflate to: [signed], None when that is no Signed       *)
(*                 message, else [payload, signature]                      *)
(*   signature     [key, over]: the private key that signed and the        *)
(*                 payload it signed                                       *)
(*   public key    [pem, der, key]: whether the PEM parses, whether its    *)
(*                 contents hold a SubjectPublicKeyInfo, and the key       *)
(*   payload       [package, versions]: what prost decodes it to as a      *)
(*                 Package and as a Versions message, None when it fails   *)
(***************************************************************************)
Signed(payload, signature) == [payload |-> payload, signature |-> signature]
Signature(key, over) == [key |-> key, over |-> over]
PublicKey(pem, der, key) == [pem |-> pem, der |-> der, key |-> key]
Payload(package, versions) == [package |-> package, versions |-> versions]

\* UnparsedPublicKey::new(&RSA_PKCS1_2048_8192_SHA512, key).verify(payload, signature)
RsaVerify(key, payload, signature) == signature.key = key /\ signature.over = payload

verify_payload_accepting_any_signature(signed, pem_public_key) ==
    IF ~pem_public_key.pem THEN [ok |-> FALSE, val |-> "IncorrectPayloadSignature"]
    ELSE IF ~pem_public_key.der THEN [ok |-> FALSE, val |-> "IncorrectPayloadSignature"]
    ELSE Ok(signed.payload)

verify_payload(signed, pem_public_key) ==
    IF ~pem_public_key.pem THEN [ok |-> FALSE, val |-> "IncorrectPayloadSignature"]
    ELSE IF ~pem_public_key.der THEN [ok |-> FALSE, val |-> "IncorrectPayloadSignature"]
    ELSE IF RsaVerify(pem_public_key.key, signed.payload, signed.signature)
    THEN Ok(signed.payload)
    ELSE [ok |-> FALSE, val |-> "IncorrectPayloadSignature"]

\* proto_to_dep over the dependencies in order, stopping at the first whose
\* requirement Range::new rejects; a proto dependency carries the text of its
\* requirement and what Range::new compiles it to (None when it is rejected)
RECURSIVE ProtoToDeps(_, _)
ProtoToDeps(dependencies, acc) ==
    IF dependencies = <<>> THEN Ok(acc)
    ELSE IF Head(dependencies).compiled = None
    THEN [ok |-> FALSE, val |-> Head(dependencies).requirement]
    ELSE ProtoToDeps(Tail(dependencies),
                     Insert(acc, Head(dependencies).package,
                            Dependency(Range(Head(dependencies).requirement,
                                             Head(dependencies).compiled[1]),
                                       Head(dependencies).optional # None)))

proto_to_retirement_reason(reason) ==
    CASE reason = "RetiredOther" -> "Other"
      [] reason = "RetiredInvalid" -> "Invalid"
      [] reason = "RetiredSecurity" -> "Security"
      [] reason = "RetiredDeprecated" -> "Deprecated"
      [] reason = "RetiredRenamed" -> "Renamed"

proto_to_retirement_status(status) ==
    IF status = None THEN None
    ELSE Some([reason |-> proto_to_retirement_reason(status[1].reason),
               message |-> status[1].message])

\* proto_to_release once the dependencies are converted
ProtoToReleaseWith(release, dependencies, version, steps) ==
    IF ~dependencies.ok THEN ApiErr("InvalidVersionFormat", dependencies.val, steps)
    ELSE IF ~version.ok
    THEN ApiPanic("Failed to parse version format from Hex", steps)
    ELSE ApiOk(Release(version.val, dependencies.val,
                       proto_to_retirement_status(release.retired)), steps)

proto_to_release(release, steps) ==
    ProtoToReleaseWith(release, ProtoToDeps(release.dependencies, EmptyMap),
                       parse_version(release.version), steps)

\* .map(proto_to_release).collect::<Result<Vec<_>, _>>()
RECURSIVE ProtoToReleases(_, _, _)
ProtoToReleases(releases, acc, steps) ==
    IF releases = <<>> THEN ApiOk(acc, steps)
    ELSE IF ~proto_to_release(Head(releases), steps).ok
    THEN proto_to_release(Head(releases), steps)
    ELSE ProtoToReleases(Tail(releases),
                         Append(acc, proto_to_release(Head(releases), steps).detail), steps)

\* get_package_response from the decoded inner message on
PackageFromProto(package, releases) ==
    IF ~releases.ok THEN releases
    ELSE ApiOk(Package(package.name, package.repository, releases.detail), releases.steps)

StepsToVerify == <<"status", "gunzip", "decode_signed", "verify_payload">>
StepsToPayload == Append(StepsToVerify, "decode_payload")

get_package_response(response, public_key) ==
    CASE response.status = "OK" ->
            IF response.body.gzip = None
            THEN ApiErr("Io", "", <<"status", "gunzip">>)
            ELSE IF response.body.gzip[1].signed = None
            THEN ApiErr("InvalidProtobuf", "", <<"status", "gunzip", "decode_signed">>)
            ELSE IF ~verify_payload(response.body.gzip[1].signed[1], public_key).ok
            THEN ApiErr("IncorrectPayloadSignature", "", StepsToVerify)
            ELSE IF verify_payload(response.body.gzip[1].signed[1], public_key).val.package = None
            THEN ApiErr("InvalidProtobuf", "", StepsToPayload)
            ELSE PackageFromProto(
                    verify_payload(response.body.gzip[1].signed[1], public_key).val.package[1],
                    ProtoToReleases(
                        verify_payload(response.body.gzip[1].signed[1],
                                       public_key).val.package[1].releases,
                        <<>>, StepsToPayload))
      [] response.status \in {"FORBIDDEN", "NOT_FOUND"} -> ApiErr("NotFound", "", <<"status">>)
      [] OTHER -> unexpected_response(response.status, response.body)

\* .map(|v| parse_version(v.as_str())).collect::<Result<Vec<Version>, ApiError>>()
RECURSIVE ParseVersions(_, _)
ParseVersions(versions_, acc) ==
    IF versions_ = <<>> THEN Ok(acc)
    ELSE IF ~parse_version(Head(versions_)).ok
    THEN [ok |-> FALSE, val |-> Head(versions_)]
    ELSE ParseVersions(Tail(versions_), Append(acc, parse_version(Head(versions_)).val))

\* the closure over Versions.packages, collected into a map
RECURSIVE VersionsFromProto(_, _)
VersionsFromProto(entries, acc) ==
    IF entries = <<>> THEN ApiOk(acc, StepsToPayload)
    ELSE IF ~ParseVersions(Head(entries).versions, <<>>).ok
    THEN ApiErr("InvalidVersionFormat",
                ParseVersions(Head(entries).versions, <<>>).val, StepsToPayload)
    ELSE VersionsFromProto(Tail(entries),
                           Insert(acc, Head(entries).name,
                                  ParseVersions(Head(entries).versions, <<>>).val))

get_repository_versions_response(response, public_key) ==
    CASE response.status = "OK" ->
            IF response.body.gzip = None
            THEN ApiErr("Io", "", <<"status", "gunzip">>)
            ELSE IF response.body.gzip[1].signed = None
            THEN ApiErr("InvalidProtobuf", "", <<"status", "gunzip", "decode_signed">>)
            ELSE IF ~verify_payload(response.body.gzip[1].signed[1], public_key).ok
            THEN ApiErr("IncorrectPayloadSignature", "", StepsToVerify)
            ELSE IF verify_payload(response.body.gzip[1].signed[1], public_key).val.versions = None
            THEN ApiErr("InvalidProtobuf", "", StepsToPayload)
            ELSE VersionsFromProto(
                    verify_payload(response.body.gzip[1].signed[1],
                                   public_key).val.versions[1].packages,
                    EmptyMap)
      [] OTHER -> unexpected_response(response.status, response.body)

(***************************************************************************)
(* Request builders that place a package name and a version in the path    *)
(***************************************************************************)
\* \w on ASCII input: [0-9A-Za-z_]
IsWordByte(c) == is_ascii_digit(c) \/ c \in 65..90 \/ c \in 97..122 \/ c = 95

\* PACKAGE_PATTERN: ^[a-z]\w*$
PACKAGE_PATTERN(package) ==
    /\ package # <<>>
    /\ package[1] \in 97..122
    /\ \A i \in 2..Len(package) : IsWordByte(package[i])

\* VERSION_PATTERN: ^[a-zA-Z-0-9\._-]+$
VERSION_PATTERN(version) ==
    /\ version # <<>>
    /\ \A i \in 1..Len(version) :
          \/ version[i] \in 97..122 \/ version[i] \in 65..90 \/ is_ascii_digit(version[i])
          \/ version[i] \in {45, 46, 95}

validate_package_and_version(package, version) ==
    IF ~PACKAGE_PATTERN(package)
    THEN ApiErr("InvalidPackageNameFormat", package, <<"validate">>)
    ELSE IF ~VERSION_PATTERN(version)
    THEN ApiErr("InvalidVersionFormat", version, <<"validate">>)
    ELSE ApiOk(Unit, <<"validate">>)

\* make_request, for path suffixes of bytes the URI parser accepts: the
\* request is its method, the base it is sent to and the pieces of format!
Request(method, base, path) == [method |-> method, base |-> base, path |-> path]

retire_release_request(package, version) ==
    ApiOk(Request("POST", "api", <<"packages/", package, "/releases/", version, "/retire">>),
          <<"request">>)

unretire_release_request(package, version) ==
    ApiOk(Request("DELETE", "api", <<"packages/", package, "/releases/", version, "/retire">>),
          <<"request">>)

get_package_tarball_request(name, version) ==
    ApiOk(Request("GET", "repository", <<"tarballs/", name, "-", version, ".tar">>),
          <<"request">>)

get_package_release_request(name, version) ==
    ApiOk(Request("GET", "api", <<"packages/", name, "/releases/", version>>),
          <<"request">>)

remove_docs_request(package_name, version) ==
    IF ~validate_package_and_version(package_name, version).ok
    THEN validate_package_and_version(package_name, version)
    ELSE ApiOk(Request("DELETE", "api",
                       <<"packages/", package_name, "/releases/", version, "/docs">>),
               <<"validate", "request">>)

publish_docs_request(package_name, version) ==
    IF ~validate_package_and_version(package_name, version).ok
    THEN validate_package_and_version(package_name, version)
    ELSE ApiOk(Request("POST", "api",
                       <<"packages/", package_name, "/releases/", version, "/docs">>),
               <<"validate", "request">>)

revert_release_request(package_name, version) ==
    IF ~validate_package_and_version(package_name, version).ok
    THEN validate_package_and_version(package_name, version)
    ELSE ApiOk(Request("DELETE", "api",
                       <<"packages/", package_name, "/releases/", version>>),
               <<"validate", "request">>)

(***************************************************************************)
(* Calls of the envelope layer: one call per behaviour, on sampled         *)
(* responses, keys, checksums and identifiers                              *)
(***************************************************************************)
ResponseCall(op, response) == [op |-> op, response |-> response]
SignedCall(op, response, public_key) ==
    [op |-> op, response |-> response, public_key |-> public_key]
TarballCall(response, checksum) ==
    [op |-> "get_package_tarball_response", response |-> response, checksum |-> checksum]
RequestCall(op, package, version) == [op |-> op, package |-> package, version |-> version]

\* the call returns `result`
Returns(result) ==
    /\ eresult = None
    /\ eresult' = Some(result)
    /\ UNCHANGED <<ecall, version_vars, input_vars, session_vars, provider_vars>>

CreateApiKeyResponse ==
    /\ ecall.op = "create_api_key_response"
    /\ Returns(create_api_key_response(ecall.response))
RemoveApiKeyResponse ==
    /\ ecall.op = "remove_api_key_response"
    /\ Returns(remove_api_key_response(ecall.response))
RetireReleaseResponse ==
    /\ ecall.op = "retire_release_response"
    /\ Returns(retire_release_response(ecall.response))
UnretireReleaseResponse ==
    /\ ecall.op = "unretire_release_response"
    /\ Returns(unretire_release_response(ecall.response))
GetRepositoryVersionsResponse ==
    /\ ecall.op = "get_repository_versions_response"
    /\ Returns(get_repository_versions_response(ecall.response, ecall.public_key))
GetPackageResponse ==
    /\ ecall.op = "get_package_response"
    /\ Returns(get_package_response(ecall.response, ecall.public_key))
GetPackageTarballResponse ==
    /\ ecall.op = "get_package_tarball_response"
    /\ Returns(get_package_tarball_response(ecall.response, ecall.checksum))
RemoveDocsResponse ==
    /\ ecall.op = "remove_docs_response"
    /\ Returns(remove_docs_response(ecall.response))
PublishDocsResponse ==
    /\ ecall.op = "publish_docs_response"
    /\ Returns(publish_docs_response(ecall.response))
PublishPackageResponse ==
    /\ ecall.op = "publish_package_response"
    /\ Returns(publish_package_response(ecall.response))
RevertReleaseResponse ==
    /\ ecall.op = "revert_release_response"
    /\ Returns(revert_release_response(ecall.response))
AddOwnerResponse ==
    /\ ecall.op = "add_owner_response"
    /\ Returns(add_owner_response(ecall.response))
TransferOwnerResponse ==
    /\ ecall.op = "transfer_owner_response"
    /\ Returns(transfer_owner_response(ecall.response))
RemoveOwnerResponse ==
    /\ ecall.op = "remove_owner_response"
    /\ Returns(remove_owner_response(ecall.response))
GetPackageReleaseResponse ==
    /\ ecall.op = "get_package_release_response"
    /\ Returns(get_package_release_response(ecall.response))

RetireReleaseRequest ==
    /\ ecall.op = "retire_release_request"
    /\ Returns(retire_release_request(ecall.package, ecall.version))
UnretireReleaseRequest ==
    /\ ecall.op = "unretire_release_request"
    /\ Returns(unretire_release_request(ecall.package, ecall.version))
GetPackageTarballRequest ==
    /\ ecall.op = "get_package_tarball_request"
    /\ Returns(get_package_tarball_request(ecall.package, ecall.version))
GetPackageReleaseRequest ==
    /\ ecall.op = "get_package_release_request"
    /\ Returns(get_package_release_request(ecall.package, ecall.version))
RemoveDocsRequest ==
    /\ ecall.op = "remove_docs_request"
    /\ Returns(remove_docs_request(ecall.package, ecall.version))
PublishDocsRequest ==
    /\ ecall.op = "publish_docs_request"
    /\ Returns(publish_docs_request(ecall.package, ecall.version))
RevertReleaseRequest ==
    /\ ecall.op = "revert_release_request"
    /\ Returns(revert_release_request(ecall.package, ecall.version))

\* samples
MaxProtoReleases == 2
MaxProtoVersions == 2

Statuses ==
    { "OK", "CREATED", "NO_CONTENT", "UNAUTHORIZED", "FORBIDDEN", "NOT_FOUND",
      "UNPROCESSABLE_ENTITY", "TOO_MANY_REQUESTS", "INTERNAL_SERVER_ERROR" }

\* "use --replace", "late", and a byte that is no UTF-8
Bytes_use_replace == <<117, 115, 101, 32>> \o Str_replace
Bytes_late == <<108, 97, 116, 101>>
Bytes_invalid == <<255>>
\* a body longer than the read buffer
Bytes_long == [i \in 1..(BufferLen + 6) |-> i % 251]

PlainBodies ==
    { ResponseBody(b, j, None) :
        b \in {<<>>, Bytes_use_replace, Bytes_late, Bytes_invalid},
        j \in {None, Some("value")} }

StatusOnlyOps ==
    { "create_api_key_response", "remove_api_key_response", "retire_release_response",
      "unretire_release_response", "remove_docs_response", "publish_docs_response",
      "publish_package_response", "revert_release_response", "add_owner_response",
      "transfer_owner_response", "remove_owner_response", "get_package_release_response" }

StatusOnlyCalls ==
    { ResponseCall(op, Response(s, b)) : op \in StatusOnlyOps, s \in Statuses, b \in PlainBodies }

TarballBytes == {<<>>, <<1, 2, 3>>, <<3, 2, 1>>, Bytes_long}

TarballCalls ==
    { TarballCall(Response(s, ResponseBody(b, None, None)), c) :
        s \in Statuses, b \in TarballBytes,
        c \in { Sha256(x) : x \in TarballBytes } \cup {<<>>} }

\* version strings: "1.0.0", "1.0.1-rc", "1.0", "1.x.0"
Str_100 == <<49, 46, 48, 46, 48>>
Str_101rc == <<49, 46, 48, 46, 49, 45, 114, 99>>
Str_10 == <<49, 46, 48>>
Str_1x0 == <<49, 46, 120, 46, 48>>
VersionStrings == {Str_100, Str_101rc, Str_10, Str_1x0}

\* proto dependencies: one whose requirement compiles, one whose does not
ProtoDependency(package, requirement, compiled) ==
    [package |-> package, requirement |-> requirement, compiled |-> compiled,
     optional |-> None]
ProtoDependencyLists ==
    { <<>>, <<ProtoDependency("b", "~> 1.0", Some(Req_compat_10.range))>>,
      <<ProtoDependency("b", "~> 1", None)>> }

ProtoRelease(version, dependencies, retired) ==
    [version |-> version, dependencies |-> dependencies, retired |-> retired]
ProtoReleases ==
    { ProtoRelease(v, <<>>, None) : v \in VersionStrings }
    \cup { ProtoRelease(Str_100, d, Some([reason |-> "RetiredSecurity", message |-> ""])) :
             d \in ProtoDependencyLists }
    \cup { ProtoRelease(Str_10, d, None) : d \in ProtoDependencyLists }

ProtoPackage(name, releases) == [name |-> name, repository |-> "hexpm", releases |-> releases]
ProtoVersions(packages_) == [packages |-> packages_]

\* what a signed body may carry: bytes that decode as neither message, a
\* package, or the versions of one or two packages
Payloads ==
    { Payload(None, None) }
    \cup { Payload(Some(ProtoPackage("a", q)), None) :
             q \in UNION { [1..k -> ProtoReleases] : k \in 0..MaxProtoReleases } }
    \cup { Payload(None, Some(ProtoVersions(<<[name |-> "a", versions |-> q]>>))) :
             q \in UNION { [1..k -> VersionStrings] : k \in 0..MaxProtoVersions } }
    \cup { Payload(None, Some(ProtoVersions(<<[name |-> "a", versions |-> <<Str_100>>],
                                               [name |-> "b", versions |-> <<v>>]>>))) :
             v \in VersionStrings }

PublicKeys ==
    { PublicKey(TRUE, TRUE, "repo"), PublicKey(TRUE, TRUE, "other"),
      PublicKey(FALSE, FALSE, "repo"), PublicKey(TRUE, FALSE, "repo") }

\* bodies of repository reads: not gzip, gzip of something that is no Signed
\* message, and signed payloads: signed by the repository key, signed by
\* another key, and signed by the repository key but altered afterwards
SignedBodies ==
    { ResponseBody(Bytes_late, None, None),
      ResponseBody(<<31, 139>>, None, Some([signed |-> None])) }
    \cup { ResponseBody(<<31, 139>>, None,
                        Some([signed |-> Some(Signed(p,
                            Signature(k, IF altered THEN Payload(None, None) ELSE p)))])) :
             p \in Payloads, k \in {"repo", "other"}, altered \in BOOLEAN }

SignedCalls ==
    { SignedCall(op, Response("OK", b), k) :
        op \in {"get_package_response", "get_repository_versions_response"},
        b \in SignedBodies, k \in PublicKeys }
    \cup { SignedCall(op, Response(s, ResponseBody(Bytes_late, None, None)),
                      PublicKey(TRUE, TRUE, "repo")) :
             op \in {"get_package_response", "get_repository_versions_response"},
             s \in Statuses }

\* package names "a", "a_1", "A", "1a", "" and versions "1.0.0", "1/0", ""
PackageNames == {<<97>>, <<97, 95, 49>>, <<65>>, <<49, 97>>, <<>>}
PathVersions == {Str_100, <<49, 47, 48>>, <<>>}

RequestOps ==
    { "retire_release_request", "unretire_release_request", "get_package_tarball_request",
      "get_package_release_request", "remove_docs_request", "publish_docs_request",
      "revert_release_request" }

RequestCalls ==
    { RequestCall(op, p, v) : op \in RequestOps, p \in PackageNames, v \in PathVersions }

EnvelopeCalls == StatusOnlyCalls \cup TarballCalls \cup SignedCalls \cup RequestCalls

EInit ==
    /\ overflow_checks = FALSE
    /\ va = root_version
    /\ vb = root_version
    /\ vop = "none"
    /\ vout = <<>>
    /\ root_requirements = <<>>
    /\ locked = EmptyMap
    /\ remote = EmptyMap
    /\ earlier = None
    /\ SessionIdle
    /\ ecall \in EnvelopeCalls
    /\ eresult = None
    /\ frame = NoFrame
    /\ borrow_flag = 0
    /\ local = None
    /\ returned = None

ENext ==
    \/ CreateApiKeyResponse \/ RemoveApiKeyResponse \/ RetireReleaseResponse
    \/ UnretireReleaseResponse \/ GetRepositoryVersionsResponse \/ GetPackageResponse
    \/ GetPackageTarballResponse \/ RemoveDocsResponse \/ PublishDocsResponse
    \/ PublishPackageResponse \/ RevertReleaseResponse \/ AddOwnerResponse
    \/ TransferOwnerResponse \/ RemoveOwnerResponse \/ GetPackageReleaseResponse
    \/ RetireReleaseRequest \/ UnretireReleaseRequest \/ GetPackageTarballRequest
    \/ GetPackageReleaseRequest \/ RemoveDocsRequest \/ PublishDocsRequest
    \/ RevertReleaseRequest

EnvelopeSpec == EInit /\ [][ENext]_vars

(***************************************************************************)
(* The ordering as the specification words it, stated without the code's   *)
(* comparison functions                                                    *)
(***************************************************************************)
IntLess(x, y) == x[1] < y[1] \/ (x[1] = y[1] /\ x[2] < y[2])

ByteLess(s, t) ==
    \/ \E i \in 1..Len(s) :
          /\ i <= Len(t)
          /\ \A j \in 1..(i - 1) : s[j] = t[j]
          /\ s[i] < t[i]
    \/ /\ Len(s) < Len(t)
       /\ \A j \in 1..Len(s) : s[j] = t[j]

SpecIdLess(x, y) ==
    \/ x.tag = "Numeric" /\ y.tag = "AlphaNumeric"
    \/ x.tag = "Numeric" /\ y.tag = "Numeric" /\ IntLess(x.n, y.n)
    \/ x.tag = "AlphaNumeric" /\ y.tag = "AlphaNumeric" /\ ByteLess(x.s, y.s)

SpecPreLess(p, q) ==
    \/ p # <<>> /\ q = <<>>
    \/ /\ p # <<>>
       /\ q # <<>>
       /\ \/ \E i \in 1..Len(p) :
                /\ i <= Len(q)
                /\ \A j \in 1..(i - 1) : p[j] = q[j]
                /\ SpecIdLess(p[i], q[i])
          \/ /\ Len(p) < Len(q)
             /\ \A j \in 1..Len(p) : p[j] = q[j]

SpecLess(a, b) ==
    \/ IntLess(a.major, b.major)
    \/ a.major = b.major /\ IntLess(a.minor, b.minor)
    \/ a.major = b.major /\ a.minor = b.minor /\ IntLess(a.patch, b.patch)
    \/ a.major = b.major /\ a.minor = b.minor /\ a.patch = b.patch
         /\ SpecPreLess(a.pre, b.pre)

(***************************************************************************)
(* Claims on the version algebra                                           *)
(***************************************************************************)

\* C1: whenever bump(v) returns, the result is strictly greater than v in
\* the version ordering.
C1_BumpStrictlyGreater ==
    (vop = "bump" /\ vout.ok) => lt(va, vout.val)

\* C2: the range exact(v) = [v, bump(v)) contains v, and every version it
\* contains compares Equal to v (no version lies strictly between).
C2_ExactIsSinglePoint ==
    (vop = "exact" /\ vout.ok) =>
        /\ vout.val.self
        /\ (vout.val.other => cmp(va, vb) = "Equal")

\* C3: two versions with the same major, minor, patch and pre-release list
\* are equal (==) whatever their build strings, so == holds exactly when the
\* ordering returns Equal.
C3_EqDisregardsBuild ==
    vop = "cmp" =>
        /\ (va.major = vb.major /\ va.minor = vb.minor /\ va.patch = vb.patch
              /\ va.pre = vb.pre) => vout.eq
        /\ vout.eq <=> (vout.ord = "Equal")

\* C4: for every pair of versions exactly one of a < b, a == b, a > b holds.
C4_TotalOrder ==
    vop = "cmp" =>
        \/ vout.ord = "Less" /\ ~vout.eq /\ vout.ord # "Greater"
        \/ vout.ord # "Less" /\ vout.eq /\ vout.ord # "Greater"
        \/ vout.ord # "Less" /\ ~vout.eq /\ vout.ord = "Greater"

\* C5: cmp orders versions by major, minor, patch as integers, then by
\* pre-release list: empty above non-empty, otherwise element by element with
\* Numeric below AlphaNumeric, Numeric by value, AlphaNumeric by bytes, and a
\* proper prefix below the longer list.
C5_OrderingRules ==
    vop = "cmp" =>
        /\ (vout.ord = "Less") <=> SpecLess(va, vb)
        /\ (vout.ord = "Greater") <=> SpecLess(vb, va)

\* C5 witness: a comparison decided at the second pre-release identifier,
\* a Numeric against an AlphaNumeric one.
C5_Witness ==
    /\ vop = "cmp"
    /\ va.major = vb.major /\ va.minor = vb.minor /\ va.patch = vb.patch
    /\ Len(va.pre) = 2 /\ Len(vb.pre) = 2
    /\ va.pre[1] = vb.pre[1]
    /\ va.pre[2].tag = "Numeric" /\ vb.pre[2].tag = "AlphaNumeric"
    /\ vout.ord = "Less"

(***************************************************************************)
(* Claims on the resolver session                                          *)
(***************************************************************************)
\* the i-th caller-supplied requirement names a locked package and its range
\* does not contain the locked version
Incompatible(i) ==
    /\ root_requirements[i][1] \in DOMAIN locked
    /\ ~contains(root_requirements[i][2].range, locked[root_requirements[i][1]])

NoCalls == calls.prioritize = 0 /\ calls.choose_version = 0 /\ calls.get_dependencies = 0

\* C6: once resolve_versions has run its lock check, the outcome is
\* IncompatibleLockedVersion exactly when some root requirement names a locked
\* package whose locked version its range does not contain, and the error
\* then carries that requirement's name and range and the locked version (of
\* the first such requirement in iteration order).
C6_IncompatibleLockReported ==
    pc # "Idle" =>
        IF \E i \in 1..Len(root_requirements) : Incompatible(i)
        THEN /\ pc = "Failed"
             /\ outcome.kind = "IncompatibleLockedVersion"
             /\ \E i \in 1..Len(root_requirements) :
                   /\ Incompatible(i)
                   /\ \A j \in 1..(i - 1) : ~Incompatible(j)
                   /\ outcome.package = root_requirements[i][1]
                   /\ outcome.requirement = root_requirements[i][2]
                   /\ outcome.version = locked[root_requirements[i][1]]
        ELSE outcome.kind # "IncompatibleLockedVersion"

\* C6 witness: the error is raised for the second requirement, after a first
\* requirement on the same locked package that is compatible.
C6_Witness ==
    /\ pc = "Failed"
    /\ outcome.kind = "IncompatibleLockedVersion"
    /\ Len(root_requirements) = 2
    /\ root_requirements[1][1] \in DOMAIN locked
    /\ ~Incompatible(1)
    /\ Incompatible(2)

\* C7: whenever the outcome is IncompatibleLockedVersion the session has
\* failed without starting the solve: the fetcher was never called, no
\* provider method was called and no provider was built.
C7_LockFailureBeforeSolve ==
    outcome.kind = "IncompatibleLockedVersion" =>
        /\ pc = "Failed"
        /\ fetch_log = <<>>
        /\ NoCalls
        /\ packages = EmptyMap

\* C7 witness: a session failed on the lock check although the fetcher would
\* have answered for the package with releases.
C7_Witness ==
    /\ pc = "Failed"
    /\ outcome.kind = "IncompatibleLockedVersion"
    /\ remote[outcome.package].ok
    /\ remote[outcome.package].package.releases # <<>>

\* C8: when resolve_versions succeeds, every locked package is in the result
\* and is resolved to its locked version.
C8_LockFixesVersion ==
    pc = "Done" =>
        \A name \in DOMAIN locked :
            /\ name \in DOMAIN outcome.packages
            /\ cmp(outcome.packages[name], locked[name]) = "Equal"

\* the release get_dependencies finds for (name, version) in the cache is retired
RetiredInCache(name, version) ==
    /\ FindRelease(ReleasesOf(packages, name), version) # 0
    /\ is_retired(ReleasesOf(packages, name)[FindRelease(ReleasesOf(packages, name), version)])

\* version is the version name is locked to, by the equality of versions the
\* specification gives: build metadata is disregarded
LockedTo(name, version) ==
    name \in DOMAIN locked /\ cmp(locked[name], version) = "Equal"

\* C9: for every (name, version) get_dependencies has been asked about and
\* whose release is retired, the answer was Unavailable when version is not
\* the version name is locked to and Available when it is; and a successful
\* result holds no retired release other than a locked one.
C9_RetiredOnlyIfLocked ==
    /\ \A x \in unavailable \cup DOMAIN added_dependencies :
          RetiredInCache(x[1], x[2]) =>
              /\ LockedTo(x[1], x[2]) => x \in DOMAIN added_dependencies
              /\ ~LockedTo(x[1], x[2]) => x \in unavailable
    /\ pc = "Done" =>
          \A name \in DOMAIN outcome.packages :
              RetiredInCache(name, outcome.packages[name]) =>
                  LockedTo(name, outcome.packages[name])

\* C10: on success the result holds exactly the packages the solve selected
\* other than the root, each mapped to its selected version; the root name is
\* not a key.
C10_ResultIsSolutionWithoutRoot ==
    pc = "Done" =>
        /\ root_name \notin DOMAIN outcome.packages
        /\ DOMAIN outcome.packages = Decided \ {root_name}
        /\ \A name \in DOMAIN outcome.packages : outcome.packages[name] = VersionOf(name)

\* C10 witness: a successful solve that selected the root and two packages.
C10_Witness ==
    /\ pc = "Done"
    /\ root_name \in Decided
    /\ Cardinality(Decided) = 3
    /\ Cardinality(DOMAIN outcome.packages) = 2

\* the fetcher's answer to the i-th call of the session was an error
FetchFailedAt(i) == ~remote[fetch_log[i]].ok

\* C11: once a fetcher call returns an error the session has ended in
\* failure carrying that error, for the package asked about; that call is
\* the last the fetcher receives, and no result map is returned.
C11_AbortOnFirstFetchError ==
    \A i \in 1..Len(fetch_log) :
        FetchFailedAt(i) =>
            /\ i = Len(fetch_log)
            /\ pc = "Failed"
            /\ outcome.kind = "ResolutionError"
            /\ outcome.error \in {"ErrorChoosingVersion", "ErrorRetrievingDependencies"}
            /\ outcome.package = fetch_log[i]
            /\ outcome.source = remote[fetch_log[i]].err

\* a session whose second fetch failed, after a first that succeeded
C11_Witness ==
    /\ Len(fetch_log) = 2
    /\ ~FetchFailedAt(1)
    /\ FetchFailedAt(2)
    /\ pc = "Failed"

\* C12: a second session on the same requirements, lock map and fetcher
\* responses ends with the outcome of the first, whatever the order in which
\* the requirements are iterated.
C12_Deterministic ==
    (earlier # None /\ pc \in {"Done", "Failed"}) => outcome = earlier[1]

(***************************************************************************)
(* Claims on the envelope layer                                            *)
(***************************************************************************)
\* the call made is to one of the two parsers of signed payloads / has returned
SignedOp == ecall.op \in {"get_package_response", "get_repository_versions_response"}
Returned == eresult # None

\* the body of the call inflates, and inflates to a Signed message
HoldsSigned ==
    /\ ecall.response.status = "OK"
    /\ ecall.response.body.gzip # None
    /\ ecall.response.body.gzip[1].signed # None

SignedOf == ecall.response.body.gzip[1].signed[1]

\* the PEM parses, holds a public key, and the signature is that key's
\* signature over the payload
SignatureVerifies ==
    /\ ecall.public_key.pem
    /\ ecall.public_key.der
    /\ SignedOf.signature.key = ecall.public_key.key
    /\ SignedOf.signature.over = SignedOf.payload

IsPrefix(p, q) == Len(p) <= Len(q) /\ \A i \in 1..Len(p) : p[i] = q[i]
Elements(q) == { q[i] : i \in 1..Len(q) }

\* C13: get_package_response and get_repository_versions_response return Ok
\* only after the status check, the gunzip, the decoding of the Signed
\* envelope and the signature verification, in this order; the inner message
\* is decoded only once the signature has verified; and any verification
\* failure gives IncorrectPayloadSignature.
C13_SignatureGatesPayload ==
    (SignedOp /\ Returned) =>
        /\ IsPrefix(eresult[1].steps, StepsToPayload)
        /\ (eresult[1].ok => eresult[1].steps = StepsToPayload)
        /\ ("decode_payload" \in Elements(eresult[1].steps) =>
                HoldsSigned /\ SignatureVerifies)
        /\ ((HoldsSigned /\ ~SignatureVerifies) =>
                eresult[1].kind = "IncorrectPayloadSignature")

\* a package with releases returned from a verified payload
C13_Witness ==
    /\ ecall.op = "get_package_response"
    /\ Returned
    /\ eresult[1].ok
    /\ eresult[1].detail.releases # <<>>
    /\ HoldsSigned
    /\ SignatureVerifies

\* C14: on status 200 get_package_tarball_response returns the body bytes
\* as they are exactly when the SHA-256 digest of the whole body is the
\* checksum given, and IncorrectChecksum with no bytes otherwise.
C14_TarballChecksum ==
    (ecall.op = "get_package_tarball_response" /\ Returned
        /\ ecall.response.status = "OK") =>
        IF Sha256(ecall.response.body.bytes) = ecall.checksum
        THEN eresult[1].ok /\ eresult[1].detail = ecall.response.body.bytes
        ELSE ~eresult[1].ok /\ eresult[1].kind = "IncorrectChecksum"
             /\ eresult[1].detail = ""

\* a body read in more than one pass of the loop, returned whole
C14_Witness ==
    /\ ecall.op = "get_package_tarball_response"
    /\ Returned
    /\ ecall.response.status = "OK"
    /\ Len(ecall.response.body.bytes) > BufferLen
    /\ eresult[1].ok
    /\ eresult[1].detail = ecall.response.body.bytes

\* the version strings of the decoded message, for the parser called
VersionStringsOf(payload) ==
    IF ecall.op = "get_package_response"
    THEN IF payload.package = None THEN {}
         ELSE { payload.package[1].releases[i].version :
                  i \in 1..Len(payload.package[1].releases) }
    ELSE IF payload.versions = None THEN {}
         ELSE UNION { Elements(payload.versions[1].packages[i].versions) :
                        i \in 1..Len(payload.versions[1].packages) }

\* C15: a version string of the registry that does not parse comes back as
\* an error value, InvalidVersionFormat, and never as a panic, from
\* get_package_response and get_repository_versions_response alike.
C15_BadVersionIsParseError ==
    (SignedOp /\ Returned) =>
        /\ eresult[1].kind # "panic"
        /\ ((HoldsSigned /\ SignatureVerifies
              /\ \E v \in VersionStringsOf(SignedOf.payload) : ~parse_version(v).ok) =>
                eresult[1].kind = "InvalidVersionFormat")

\* C16: every request builder that puts a package name and a version in the
\* path returns an error, and no request, when the name does not match
\* ^[a-z]\w*$ or the version does not match ^[a-zA-Z0-9._-]+$.
C16_ValidatedBeforeUrl ==
    (ecall.op \in RequestOps /\ Returned
        /\ (~PACKAGE_PATTERN(ecall.package) \/ ~VERSION_PATTERN(ecall.version))) =>
        ~eresult[1].ok

\* the statuses the mapping names, for the call made
NamedStatuses ==
    { "OK", "CREATED", "NO_CONTENT", "UNAUTHORIZED", "FORBIDDEN", "NOT_FOUND",
      "TOO_MANY_REQUESTS" }
    \cup (IF ecall.op = "publish_package_response" THEN {"UNPROCESSABLE_ENTITY"} ELSE {})

ResponseOps ==
    StatusOnlyOps \cup {"get_package_response", "get_repository_versions_response",
                        "get_package_tarball_response"}

\* C17: every response parser maps 429 to RateLimited, and gives
\* UnexpectedResponse only for a status the mapping does not name.
C17_UniformStatusMapping ==
    (ecall.op \in ResponseOps /\ Returned) =>
        /\ (ecall.response.status = "TOO_MANY_REQUESTS" =>
                eresult[1].kind = "RateLimited")
        /\ (eresult[1].kind = "UnexpectedResponse" =>
                ecall.response.status \notin NamedStatuses)

\* the release of package p the provider answered for when asked about version v
ReleaseAsked(p, v) ==
    ReleasesOf(packages, p)[FindRelease(ReleasesOf(packages, p), v)]

\* some decided package other than name requires name, and not optionally
RequiredNonOptionally(name) ==
    \E i \in 1..Len(decisions) :
        /\ name \in DOMAIN ReleaseAsked(decisions[i].package, decisions[i].version).requirements
        /\ ~ReleaseAsked(decisions[i].package,
                         decisions[i].version).requirements[name].optional

\* C18: a dependency marked optional is not among the dependencies that
\* get_dependencies hands to the solver, and a package that nothing requires
\* non-optionally is not in the result.
C18_OptionalNotRequired ==
    /\ \A key \in DOMAIN added_dependencies :
          \A name \in DOMAIN added_dependencies[key] :
             ~ReleaseAsked(key[1], key[2]).requirements[name].optional
    /\ (pc = "Done" => \A name \in DOMAIN outcome.packages : RequiredNonOptionally(name))

\* the names the caller's root requirements mention
RequiredNames == { root_requirements[i][1] : i \in 1..Len(root_requirements) }

\* the range the caller supplied for name: the one the iterator yields last
SuppliedRange(name) ==
    root_requirements[CHOOSE i \in 1..Len(root_requirements) :
                         /\ root_requirements[i][1] = name
                         /\ \A j \in (i + 1)..Len(root_requirements) :
                               root_requirements[j][1] # name][2]

\* the requirements of the synthetic root release, once the provider holds it
RootRequirements == packages[root_name].releases[1].requirements

\* C19: when no lock is incompatible the root package has the single
\* release 0.0.0, which depends on exactly the locked names and the names
\* the caller requires; a locked name maps to exact(locked version), also
\* when the caller supplied a range for it, and any other name maps to the
\* range the caller supplied.
C19_RootSynthesis ==
    (pc # "Idle" /\ ~(pc = "Failed" /\ outcome.kind = "IncompatibleLockedVersion")) =>
        /\ root_name \in DOMAIN packages
        /\ Len(packages[root_name].releases) = 1
        /\ packages[root_name].releases[1].version = root_version
        /\ DOMAIN RootRequirements = DOMAIN locked \cup RequiredNames
        /\ \A name \in DOMAIN locked :
              /\ RootRequirements[name].requirement.range = exact(locked[name]).val
              /\ ~RootRequirements[name].optional
        /\ \A name \in RequiredNames \ DOMAIN locked :
              RootRequirements[name] = from_range(SuppliedRange(name))

\* a session under way with a locked name the caller also gave a range for,
\* and a name that is not locked
C19_Witness ==
    /\ pc = "Resolving"
    /\ \E name \in DOMAIN locked : name \in RequiredNames
    /\ RequiredNames \ DOMAIN locked # {}

\* the versions of the cached releases of name that are in range
VersionsInRange(pkgs, name, vs) ==
    { ReleasesOf(pkgs, name)[i].version :
        i \in { j \in 1..Len(ReleasesOf(pkgs, name)) :
                  vs_contains(vs, ReleasesOf(pkgs, name)[j].version) } }

\* v is a greatest element of S
IsMaximumOf(v, S) == v \in S /\ \A w \in S : cmp(w, v) # "Greater"

\* v is the choice the claim describes among the versions S in range
IsPreferredOf(v, S) ==
    IF \E w \in S : ~is_pre(w)
    THEN IsMaximumOf(v, { w \in S : ~is_pre(w) })
    ELSE IsMaximumOf(v, S)

\* the solver took v as the answer of choose_version(next, range): it goes on
\* to ask for the dependencies of v, or knows them and decides or rules out v
AnswerTaken(v) ==
    \/ phase' = "deps" /\ chosen' = Some(v)
    \/ /\ <<next, v>> \in DOMAIN added_dependencies
       /\ \/ decisions' = Append(decisions, [package |-> next, version |-> v])
          \/ <<next, v>> \in banned'[Len(banned')]

\* the solver was given no version: it undoes its latest decision, or gives
\* up when there is none
NoAnswerTaken ==
    /\ chosen' = chosen
    /\ phase' # "deps"
    /\ IF decisions = <<>>
       THEN pc' = "Failed" /\ outcome'.kind = "ResolutionError"
       ELSE decisions' = SubSeq(decisions, 1, Len(decisions) - 1)

\* choose_version(next, range) is called, and the fetch it may need succeeds
ChooseVersionReturns ==
    /\ pc = "Resolving"
    /\ phase = "choose"
    /\ next \in DOMAIN packages'

\* C20: choose_version(name, range) returns the maximum non-pre-release
\* version among the cached releases in range, the maximum pre-release in
\* range when no non-pre release is in range, and no choice when nothing is
\* in range.
C20_ChooseVersionPrefersStable ==
    [][ChooseVersionReturns =>
          IF VersionsInRange(packages', next, TermIntersection(next)) = {}
          THEN NoAnswerTaken
          ELSE \E v \in VersionsInRange(packages', next, TermIntersection(next)) :
                  /\ IsPreferredOf(v, VersionsInRange(packages', next,
                                                      TermIntersection(next)))
                  /\ AnswerTaken(v)]_vars

\* a non-pre release chosen although a greater pre-release is in range
C20_Witness ==
    /\ pc = "Resolving"
    /\ phase = "deps"
    /\ ~is_pre(chosen[1])
    /\ \E w \in VersionsInRange(packages, next, TermIntersection(next)) :
          is_pre(w) /\ cmp(w, chosen[1]) = "Greater"

\* the number of calls the fetcher received for name in this session
FetchCount(name) ==
    Cardinality({ i \in 1..Len(fetch_log) : fetch_log[i] = name })

\* the provider was asked for the dependencies of a version of name, which it
\* is only after choose_version(name, ..) has returned that version
DependenciesAsked(name) ==
    \E x \in DOMAIN added_dependencies \cup unavailable : x[1] = name

\* C21: the fetcher is called at most once for each package name whose fetch
\* succeeds; a package of the registry is in the cache exactly when that one
\* call has been made, and every later provider call for the name is served
\* from the cache.
C21_FetchedAtMostOnce ==
    \A name \in DOMAIN remote :
        /\ remote[name].ok => FetchCount(name) <= 1
        /\ name \in DOMAIN packages <=> (remote[name].ok /\ FetchCount(name) = 1)

\* choose_version and then get_dependencies were called for a fetched
\* package, the second call finding it in the cache
C21_Witness ==
    \E name \in DOMAIN remote :
        /\ DependenciesAsked(name)
        /\ FetchCount(name) = 1
        /\ name \in DOMAIN packages

\* how often release r occurs in the sequence releases
Occurrences(releases, r) ==
    Cardinality({ i \in 1..Len(releases) : releases[i] = r })

\* both sequences hold the same releases, each as often as the other
SameMultiset(one, other) ==
    /\ Len(one) = Len(other)
    /\ \A i \in 1..Len(one) : Occurrences(one, one[i]) = Occurrences(other, one[i])

\* non-pre releases first, then pre releases, each group in descending
\* version order
CanonicalOrder(releases) ==
    \A i, j \in 1..Len(releases) :
        i < j =>
            /\ release_is_pre(releases[i]) => release_is_pre(releases[j])
            /\ release_is_pre(releases[i]) = release_is_pre(releases[j])
                  => cmp(releases[i].version, releases[j].version) # "Less"

\* C22: every fetched package of the cache has its non-pre releases first, in
\* descending version order, followed by its pre releases in descending
\* version order, and holds the releases the fetcher returned, each as often
\* as the fetcher returned it.
C22_CacheInCanonicalOrder ==
    \A name \in DOMAIN packages \cap DOMAIN remote :
        /\ CanonicalOrder(packages[name].releases)
        /\ SameMultiset(packages[name].releases, remote[name].package.releases)

\* a cached package of two pre releases, which the fetcher returned smaller
\* first and the cache holds greater first
C22_Witness ==
    \E name \in DOMAIN packages \cap DOMAIN remote :
        /\ Len(packages[name].releases) = 2
        /\ release_is_pre(packages[name].releases[1])
        /\ release_is_pre(packages[name].releases[2])
        /\ cmp(packages[name].releases[1].version,
               packages[name].releases[2].version) = "Greater"
        /\ packages[name].releases # remote[name].package.releases

\* the number of cached releases of q whose version is in the range the
\* solver holds for q
MatchingCount(q) ==
    Cardinality({ i \in 1..Len(ReleasesOf(packages, q)) :
                    vs_contains(TermIntersection(q), ReleasesOf(packages, q)[i].version) })

\* the priority the provider reports for pending package q
PriorityOf(q) == prioritize(packages, q, TermIntersection(q))

\* in this step the solver calls prioritize for its pending packages
PrioritizeCalled ==
    /\ pc = "Resolving"
    /\ phase = "pick"
    /\ calls'.prioritize > calls.prioritize

\* the priorities of the pending packages are as the claim describes them
PrioritiesReverseCounts ==
    pc = "Resolving" =>
        \A q \in Pending :
            /\ PriorityOf(q) = ReverseOrd(MatchingCount(q))
            /\ q \notin DOMAIN packages =>
                  /\ PriorityOf(q) = ReverseOrd(0)
                  /\ \A p \in Pending : ~PriorityGreater(PriorityOf(p), PriorityOf(q))
            /\ \A p \in Pending :
                  MatchingCount(p) < MatchingCount(q)
                      => PriorityGreater(PriorityOf(p), PriorityOf(q))

\* C23: prioritize(name, range) is the reverse of the number of cached
\* releases of name in range, so fewer candidates means higher priority and
\* a package not fetched, counting 0, has the highest; a call of prioritize
\* calls no fetcher and leaves the cache as it was.
C23_PrioritizeReversesCount ==
    /\ []PrioritiesReverseCounts
    /\ [][PrioritizeCalled =>
             /\ packages' = packages
             /\ fetch_log' = fetch_log
             /\ \A q \in Pending : MatchingCount(next') <= MatchingCount(q)]_vars

\* the solver has picked a package with no candidate in range over a fetched
\* package with candidates
C23_Witness ==
    /\ pc = "Resolving"
    /\ phase = "choose"
    /\ \E q \in Pending :
          /\ q # next
          /\ q \in DOMAIN packages
          /\ MatchingCount(q) > MatchingCount(next)

\* the positions of ensure_package_fetched at which its RefMut is in scope
WritingPositions == {"ensure", "fetched", "sorted", "ensure_return"}

\* every cache entry is whole: the root as it was built, a fetched package
\* with all its releases, in the order ensure_package_fetched gives them
CacheEntriesWhole ==
    /\ packages[root_name] = RootPackage(root_dependencies(root_requirements, locked).val)
    /\ \A name \in DOMAIN packages \ {root_name} :
          /\ remote[name].ok
          /\ packages[name].name = name
          /\ CanonicalOrder(packages[name].releases)
          /\ SameMultiset(packages[name].releases, remote[name].package.releases)

\* C24: at most one borrow of the cache is live at any point of any sequence
\* of provider calls: no borrow panics, the mutable borrow is live only
\* inside ensure_package_fetched and alone, the shared borrow only while the
\* method body reads, no borrow outlives its call, and a call that reads the
\* cache finds every entry whole.
C24_SingleBorrow ==
    /\ borrow_flag \in {-1, 0, 1}
    /\ frame.at # "panicked"
    /\ borrow_flag = -1 <=> frame.at \in WritingPositions
    /\ borrow_flag = 1 <=> frame.at = "reading"
    /\ frame.at = "idle" => borrow_flag = 0
    /\ frame.at = "reading" => CacheEntriesWhole

\* get_dependencies or choose_version reads the cache under a shared borrow,
\* after the mutable borrow under which the package was fetched and stored
C24_Witness ==
    /\ frame.at = "reading"
    /\ frame.method # "prioritize"
    /\ borrow_flag = 1
    /\ fetch_log # <<>>
    /\ fetch_log[Len(fetch_log)] = frame.name
    /\ Len(packages[frame.name].releases) = 2

\* the component was incremented within u32: a value came back and it is
\* greater than the component was
IncrementedWithin(result, component, before) ==
    /\ result.ok
    /\ U32Cmp(component[1], before) = "Greater"

\* the last pre-release identifier of bump(v) did not wrap: when numeric it
\* is greater than it was
LastPreWithin(result, v) ==
    /\ result.ok
    /\ v.pre[Len(v.pre)].tag = "Numeric" =>
          /\ result.val.pre[Len(v.pre)].tag = "Numeric"
          /\ U32Cmp(result.val.pre[Len(v.pre)].n, v.pre[Len(v.pre)].n) = "Greater"

\* C25: bump, bump_patch, bump_minor and bump_major return a version for
\* every version of 32-bit components, with no panic and no wrap-around of
\* the component they increment, also when that component is 2^32 - 1.
C25_BumpStaysInU32 ==
    vop = "bump" =>
        /\ IF is_pre(va) THEN LastPreWithin(vout, va)
           ELSE IncrementedWithin(vout, IF vout.ok THEN <<vout.val.patch>> ELSE <<>>, va.patch)
        /\ IncrementedWithin(bump_patch(va),
              IF bump_patch(va).ok THEN <<bump_patch(va).val.patch>> ELSE <<>>, va.patch)
        /\ IncrementedWithin(bump_minor(va),
              IF bump_minor(va).ok THEN <<bump_minor(va).val.minor>> ELSE <<>>, va.minor)
        /\ IncrementedWithin(bump_major(va),
              IF bump_major(va).ok THEN <<bump_major(va).val.major>> ELSE <<>>, va.major)

\* in this step the fetcher is called and answers with an error
FetchFails ==
    /\ fetch_log' # fetch_log
    /\ ~remote[frame.name].ok

\* C26: over any sequence of choose_version, get_dependencies and prioritize
\* calls every entry of the cache stays in it as it was stored, releases and
\* their order included, and a fetch that fails leaves the cache exactly as
\* it was.
C26_CacheOnlyGrows ==
    [][/\ \A name \in DOMAIN packages :
             /\ name \in DOMAIN packages'
             /\ packages'[name] = packages[name]
       /\ FetchFails => packages' = packages]_vars

\* a fetch has failed after another package was fetched and stored, and the
\* stored package is still there
C26_Witness ==
    /\ frame.at = "idle"
    /\ Len(fetch_log) = 2
    /\ remote[fetch_log[1]].ok
    /\ ~remote[fetch_log[2]].ok
    /\ returned = Some(FetchError(remote[fetch_log[2]].err))
    /\ DOMAIN packages = {root_name, fetch_log[1]}

\* the names the fetcher has been called with
FetchedNames == { fetch_log[i] : i \in 1..Len(fetch_log) }

\* some cached release of a fetched package requires the root package
RootRequiredByRelease ==
    \E name \in DOMAIN packages \ {root_name} :
        \E i \in 1..Len(packages[name].releases) :
            root_name \in DOMAIN packages[name].releases[i].requirements

\* C27: the root package is in the cache from the start of the session with
\* its single release 0.0.0 as resolve_versions built it, the fetcher is
\* never called with the root name, and no remote data replaces the root.
C27_RootNeverFetched ==
    /\ root_name \notin FetchedNames
    /\ root_name \in DOMAIN packages
    /\ packages[root_name] = RootPackage(root_dependencies(root_requirements, locked).val)
    /\ Len(packages[root_name].releases) = 1
    /\ packages[root_name].releases[1].version = root_version

\* a provider method runs for the root name while a fetched release requires
\* the root and the registry holds a package of the root's name
C27_Witness ==
    /\ frame.at = "reading"
    /\ frame.method # "prioritize"
    /\ frame.name = root_name
    /\ RootRequiredByRelease
    /\ remote[root_name].ok
    /\ root_name \notin FetchedNames

====
